---- MODULE Spec2Model ----
(***************************************************************************)
(* A model of artm::core::MasterComponent (master_component.cc): the       *)
(* dispatch-and-wait pipeline RequestProcessBatches, the matrix algebra    *)
(* operations MergeModel / RegularizeModel / NormalizeModel, the export /  *)
(* import codec, WaitIdle, Reconfigure and CreateOrReconfigureModel, over  *)
(* a Matrix Store of shared matrix objects.                                *)
(*                                                                         *)
(* Matrix objects live in `heap` (an object is named by its index, 0 is    *)
(* the null pointer); the store maps a model name to an object, as the     *)
(* merger's shared_ptr maps do.  Weights are integers (no float rounding). *)
(***************************************************************************)
EXTENDS Integers, Sequences, FiniteSets, TLC

\* ------------------------------------------------------------------ bounds
\* the largest number of batch references of one RequestProcessBatches call
MaxBatches == 2

\* the largest number of (source, weight) pairs of one MergeModel call
MaxSources == 2

\* the largest timeout_milliseconds of a WaitIdle call
MaxTimeout == 4

\* the most milliseconds the clock advances between time_start and time_end
MaxElapsed == 5

\* ------------------------------------------------------------- vocabulary
ModelNames == {"a", "b", "c"}
\* has_nwt_target_name() = false
NoName == "none"
Callers == {"c1"}
Workers == {"w1", "w2"}
TopicNames == <<"t1", "t2">>

NullPtr == 0

VARIABLES
    \* ---- Matrix Store (instance_->merger())
    heap,          \* the matrix objects ever allocated (index = identity)
    topic_model,   \* name -> versioned model [pwt, nwt] (objects), or none
    phi,           \* name -> raw matrix object set by SetPhiMatrix, or 0
    scores,        \* scores_merger: model name -> merged score
    \* ---- RequestProcessBatches, per calling thread
    pc,            \* position of the caller in RequestProcessBatches
    args,          \* ProcessBatchesArgs of the call
    p_wt,          \* the resolved source matrix object
    batch_index,   \* loop counter of the enqueue loop
    in_progress,   \* the call's stack-local BatchManager: outstanding ids
    next_uuid,     \* source of fresh task ids (boost random_generator)
    result,        \* ProcessBatchesResult.score_data
    err,           \* the exception the call ended with
    \* ---- worker pool
    processor_queue,  \* instance_->processor_queue()
    wk_pc,            \* worker position: "idle" | "process" | "ack"
    wk_item,          \* the ProcessorInput a worker holds
    pool_reliable,    \* whether the pool keeps its guarantee (acks everything)
    \* ---- observation (history of the call, not program state)
    registered,    \* ids given to batch_manager.Add, in order
    pushed,        \* work items pushed by the call, in order
    acked,         \* ids acknowledged by a worker
    lost,          \* ids a pool that broke its guarantee dropped
    phi0,          \* the store's phi map when the call started
    heap0,         \* the heap when the call started
    scores0,       \* the score accumulator when the call started
    \* ---- a concurrent reader of the Matrix Store
    held,          \* [obj, snap]: object fetched by name and what it held then
    \* ---- MergeModel / RegularizeModel / NormalizeModel, one calling thread
    op,            \* the operation called: "none" | "merge" | "regularize" | "normalize"
    op_pc,         \* position of the caller in the operation
    op_args,       \* the arguments of the call
    op_i,          \* MergeModel's loop counter i
    op_target,     \* the target under construction (nwt_target, rwt_target, pwt_target)
    op_nwt,        \* the nwt source lookups: [phi_matrix, topic_model, n_wt]
    op_pwt,        \* the second source (p_wt or r_wt): the object, or 0
    op_err,        \* the exception the operation ended with
    publishes,     \* how often the operation called SetPhiMatrix
    \* ---- the file system and ExportModel / ImportModel, one calling thread
    fs,            \* path -> [exists, bytes]
    tampered,      \* whether the file was changed outside the program
    ex_pc,         \* position of the caller in ExportModel
    ex_args,       \* ExportModelArgs
    ex_nwt,        \* the matrix object ExportModel resolved (n_wt)
    ex_token_id,   \* ExportModel's loop counter token_id
    ex_pending,    \* get_topic_model_args.token: token indexes of the open chunk
    ex_err,        \* the exception ExportModel ended with
    im_pc,         \* position of the caller in ImportModel
    im_args,       \* ImportModelArgs
    im_fin,        \* the input stream: [pos, eof, fail]
    im_version,    \* the local `version`
    im_length,     \* the local `length`
    im_target,     \* the local `target` (object), or 0
    im_chunks,     \* how many chunks ImportModel has read
    im_err,        \* the exception ImportModel ended with
    \* ---- WaitIdle, one calling thread
    wi_pc,         \* position of the caller in WaitIdle
    wi_args,       \* WaitIdleArgs: [timeout_milliseconds]
    wi_timeout,    \* the local `timeout`
    wi_new_args,   \* the local `new_args`: [timeout_milliseconds]
    wi_retval,     \* the local `retval`
    wi_elapsed,    \* (time_end - time_start).total_milliseconds()
    wi_invoked,    \* the sub-waits invoked so far: [who, timeout_milliseconds, idle]
    wi_result,     \* what WaitIdle returned
    \* ---- configuration: Reconfigure and CreateOrReconfigureModel
    is_configured_,  \* the member is_configured_
    config_,         \* the published MasterComponentConfig snapshot
    instance_config, \* the configuration the Instance runs with
    model_configs,   \* the Instance's models: name -> ModelConfig, or NoConfig
    rc_pc,           \* position of the caller in Reconfigure
    rc_args,         \* user_config
    rc_err,          \* the exception Reconfigure ended with
    cm_pc,           \* position of the caller in CreateOrReconfigureModel
    cm_args,         \* the ModelConfig passed
    cm_err,          \* the exception CreateOrReconfigureModel ended with
    config_held,     \* the snapshot a reader obtained from config_
    cfg0             \* [config_, instance_config, model_configs] at the last call

storeVars == <<heap, topic_model, phi, scores>>
callVars == <<pc, args, p_wt, batch_index, in_progress, next_uuid, result, err>>
poolVars == <<processor_queue, wk_pc, wk_item, pool_reliable>>
histVars == <<registered, pushed, acked, lost, phi0, heap0, scores0>>
algVars == <<op, op_pc, op_args, op_i, op_target, op_nwt, op_pwt, op_err, publishes>>
exVars == <<ex_pc, ex_args, ex_nwt, ex_token_id, ex_pending, ex_err>>
imVars == <<im_pc, im_args, im_fin, im_version, im_length, im_target, im_chunks, im_err>>
codecVars == <<fs, tampered, exVars, imVars>>
waitVars ==
    <<wi_pc, wi_args, wi_timeout, wi_new_args, wi_retval, wi_elapsed, wi_invoked,
      wi_result>>
configVars ==
    <<is_configured_, config_, instance_config, model_configs, rc_pc, rc_args, rc_err,
      cm_pc, cm_args, cm_err, config_held, cfg0>>
\* WaitIdle and the configuration calls touch no matrix, file or work item
controlVars == <<waitVars, configVars>>
vars ==
    <<storeVars, callVars, poolVars, histVars, held, algVars, codecVars, controlVars>>

\* ------------------------------------------------------------ matrices
\* A matrix: topic names, tokens in matrix order, one row of weights a token.
Matrix(topics, tokens, rows) == [topic_name |-> topics, token |-> tokens, val |-> rows]

ZeroRow(topics) == [j \in 1..Len(topics) |-> 0]

\* DensePhiMatrix(name, topic_name): no tokens yet
NewMatrix(topics) == Matrix(topics, <<>>, <<>>)

\* PhiMatrix::Reshape(other): the tokens and topics of other, all weights 0
Reshape(other) ==
    Matrix(other.topic_name, other.token,
           [i \in 1..Len(other.token) |-> ZeroRow(other.topic_name)])

\* the (token, topic, weight) entries of a matrix
Entries(m) ==
    {<<m.token[i], m.topic_name[j], m.val[i][j]>> :
        i \in 1..Len(m.token), j \in 1..Len(m.topic_name)}

TokenSet(m) == {m.token[i] : i \in 1..Len(m.token)}

NoTopicModel == [pwt |-> NullPtr, nwt |-> NullPtr]

\* no source looked up yet
NoLookup == [phi_matrix |-> NullPtr, topic_model |-> NoTopicModel, n_wt |-> NullPtr]

\* merger()->GetLatestTopicModel(name) != nullptr
HasTopicModel(name) == topic_model[name] # NoTopicModel
\* merger()->GetPhiMatrix(name) != nullptr
HasPhiMatrix(name) == phi[name] # NullPtr

\* (topic_model != nullptr) ? topic_model->GetPwt() : *phi_matrix
ResolvePwt(name) ==
    IF HasTopicModel(name) THEN topic_model[name].pwt ELSE phi[name]

\* (topic_model != nullptr) ? topic_model->GetNwt() : *phi_matrix
ResolveNwt(name) ==
    IF HasTopicModel(name) THEN topic_model[name].nwt ELSE phi[name]

\* the store before any command: "a" is a versioned model, "b" a raw matrix,
\* "c" does not exist
InitHeap ==
    << Matrix(TopicNames, <<"x", "y">>, << <<1, 0>>, <<0, 1>> >>),
       Matrix(TopicNames, <<"x", "y">>, << <<1, 0>>, <<0, 2>> >>),
       Matrix(TopicNames, <<"y">>, << <<3, 1>> >>) >>

InitStore ==
    /\ heap = InitHeap
    /\ topic_model = [n \in ModelNames |->
                        IF n = "a" THEN [pwt |-> 1, nwt |-> 2] ELSE NoTopicModel]
    /\ phi = [n \in ModelNames |-> IF n = "b" THEN 3 ELSE NullPtr]
    /\ scores = [n \in ModelNames |-> 1]


\* --------------------------------------------------- RequestProcessBatches
ProcessBatchesArgs ==
    [pwt_source_name : ModelNames,
     nwt_target_name : ModelNames \cup {NoName},
     batches : 0..MaxBatches,
     reset_scores : BOOLEAN,
     config_ok : BOOLEAN]

NoArgs ==
    [pwt_source_name |-> "a", nwt_target_name |-> NoName, batches |-> 0,
     reset_scores |-> FALSE, config_ok |-> TRUE]

NoItem ==
    [task_id |-> 0, model_name |-> "a", batch_filename |-> 0,
     nwt_target_name |-> NoName, notifiable |-> "c1"]

Range(s) == {s[i] : i \in 1..Len(s)}

\* the call is made: the arguments are the caller's choice
Call(c) ==
    /\ pc[c] = "idle"
    /\ \E a \in ProcessBatchesArgs : args' = [args EXCEPT ![c] = a]
    /\ pc' = [pc EXCEPT ![c] = "resolve"]
    /\ phi0' = phi /\ heap0' = heap /\ scores0' = scores
    /\ UNCHANGED <<storeVars, p_wt, batch_index, in_progress, next_uuid, result, err,
                   poolVars, registered, pushed, acked, lost, held, algVars, codecVars,
                   controlVars>>

\* lines 255-259: the source is the versioned model, else the raw matrix, else
\* the call throws InvalidOperation
ResolveSource(c) ==
    /\ pc[c] = "resolve"
    /\ LET name == args[c].pwt_source_name IN
        IF ~HasTopicModel(name) /\ ~HasPhiMatrix(name)
        THEN /\ pc' = [pc EXCEPT ![c] = "failed"]
             /\ err' = [err EXCEPT ![c] = "InvalidOperation"]
             /\ UNCHANGED p_wt
        ELSE /\ pc' = [pc EXCEPT ![c] = "target"]
             /\ p_wt' = [p_wt EXCEPT ![c] = ResolvePwt(name)]
             /\ UNCHANGED err
    /\ UNCHANGED <<storeVars, args, batch_index, in_progress, next_uuid, result,
                   poolVars, histVars, held, algVars, codecVars,
                   controlVars>>

\* a target step that publishes first and compares the two names afterwards
PublishThenCompare(c) ==
    /\ pc[c] = "target"
    /\ IF args[c].nwt_target_name = NoName
       THEN /\ pc' = [pc EXCEPT ![c] = "validate"]
            /\ UNCHANGED <<heap, phi, err>>
       ELSE /\ heap' = Append(heap, Reshape(heap[p_wt[c]]))
            /\ phi' = [phi EXCEPT ![args[c].nwt_target_name] = Len(heap) + 1]
            /\ IF args[c].nwt_target_name = args[c].pwt_source_name
               THEN /\ pc' = [pc EXCEPT ![c] = "failed"]
                    /\ err' = [err EXCEPT ![c] = "InvalidOperation"]
               ELSE /\ pc' = [pc EXCEPT ![c] = "validate"]
                    /\ UNCHANGED err
    /\ UNCHANGED <<topic_model, scores, args, p_wt, batch_index, in_progress,
                   next_uuid, result, poolVars, histVars, held, algVars, codecVars,
                   controlVars>>

\* lines 261-269: a named target must differ from the source; it is allocated,
\* reshaped to the source and published at once
PublishTarget(c) ==
    /\ pc[c] = "target"
    /\ IF args[c].nwt_target_name = NoName
       THEN /\ pc' = [pc EXCEPT ![c] = "validate"]
            /\ UNCHANGED <<heap, phi, err>>
       ELSE IF args[c].nwt_target_name = args[c].pwt_source_name
       THEN /\ pc' = [pc EXCEPT ![c] = "failed"]
            /\ err' = [err EXCEPT ![c] = "InvalidOperation"]
            /\ UNCHANGED <<heap, phi>>
       ELSE /\ heap' = Append(heap, Reshape(heap[p_wt[c]]))
            /\ phi' = [phi EXCEPT ![args[c].nwt_target_name] = Len(heap) + 1]
            /\ pc' = [pc EXCEPT ![c] = "validate"]
            /\ UNCHANGED err
    /\ UNCHANGED <<topic_model, scores, args, p_wt, batch_index, in_progress,
                   next_uuid, result, poolVars, histVars, held, algVars, codecVars,
                   controlVars>>

\* lines 271-273: Helpers::FixAndValidate(&model_config, throw_error = true)
ValidateModelConfig(c) ==
    /\ pc[c] = "validate"
    /\ IF args[c].config_ok
       THEN pc' = [pc EXCEPT ![c] = "reset"] /\ UNCHANGED err
       ELSE /\ pc' = [pc EXCEPT ![c] = "failed"]
            /\ err' = [err EXCEPT ![c] = "InvalidOperation"]
    /\ UNCHANGED <<storeVars, args, p_wt, batch_index, in_progress, next_uuid,
                   result, poolVars, histVars, held, algVars, codecVars,
                   controlVars>>

\* lines 292-293: scores_merger->ResetScores(model_name) when asked
ResetScores(c) ==
    /\ pc[c] = "reset"
    /\ scores' = IF args[c].reset_scores
                 THEN [scores EXCEPT ![args[c].pwt_source_name] = 0]
                 ELSE scores
    /\ pc' = [pc EXCEPT ![c] = "loop"]
    /\ UNCHANGED <<heap, topic_model, phi, args, p_wt, batch_index, in_progress,
                   next_uuid, result, err, poolVars, histVars, held, algVars, codecVars,
                   controlVars>>

\* a generator that hands out the id it handed out before
ReusedTaskId == IF next_uuid = 0 THEN next_uuid + 1 ELSE next_uuid

\* line 295: boost::uuids::random_generator()(): an id no earlier call returned
NewTaskId == next_uuid + 1

\* BatchManager::Add(task_id, ...): the id becomes outstanding
BatchManagerAdd(outstanding, id) == outstanding \cup {id}

\* BatchManager::Callback(task_id, ...): the id is acknowledged
BatchManagerCallback(outstanding, id) == outstanding \ {id}

\* lines 298-309: the ProcessorInput of one batch
WorkItem(c, id) ==
    [task_id |-> id,
     model_name |-> args[c].pwt_source_name,
     batch_filename |-> batch_index[c] + 1,
     nwt_target_name |-> args[c].nwt_target_name,
     notifiable |-> c]

\* lines 294-312: one iteration of the enqueue loop, or its exit
EnqueueBatch(c) ==
    /\ pc[c] = "loop"
    /\ IF batch_index[c] < args[c].batches
       THEN LET id == NewTaskId
                pi == WorkItem(c, id) IN
            /\ next_uuid' = next_uuid + 1
            /\ in_progress' = [in_progress EXCEPT ![c] = BatchManagerAdd(@, id)]
            /\ processor_queue' = Append(processor_queue, pi)
            /\ batch_index' = [batch_index EXCEPT ![c] = @ + 1]
            /\ registered' = [registered EXCEPT ![c] = Append(@, id)]
            /\ pushed' = [pushed EXCEPT ![c] = Append(@, pi)]
            /\ UNCHANGED pc
       ELSE /\ pc' = [pc EXCEPT ![c] = "wait"]
            /\ UNCHANGED <<next_uuid, in_progress, processor_queue, batch_index,
                           registered, pushed>>
    /\ UNCHANGED <<storeVars, args, p_wt, result, err, wk_pc, wk_item,
                   pool_reliable, acked, lost, phi0, heap0, scores0, held, algVars, codecVars,
                   controlVars>>

\* a wait that ends when the queue is drained, acknowledged or not
QueueDrained(c) == processor_queue = <<>>

\* line 314: batch_manager.IsEverythingProcessed()
IsEverythingProcessed(c) == in_progress[c] = {}

\* lines 314-316: poll the tracker; sleep and poll again while ids are outstanding
PollTracker(c) ==
    /\ pc[c] = "wait"
    /\ IF IsEverythingProcessed(c)
       THEN pc' = [pc EXCEPT ![c] = "collect"]
       ELSE UNCHANGED pc
    /\ UNCHANGED <<storeVars, args, p_wt, batch_index, in_progress, next_uuid,
                   result, err, poolVars, histVars, held, algVars, codecVars,
                   controlVars>>

\* lines 318-326: read the merged score of the model back into the result
CollectScores(c) ==
    /\ pc[c] = "collect"
    /\ result' = [result EXCEPT ![c] = scores[args[c].pwt_source_name]]
    /\ pc' = [pc EXCEPT ![c] = "done"]
    /\ UNCHANGED <<storeVars, args, p_wt, batch_index, in_progress, next_uuid,
                   err, poolVars, histVars, held, algVars, codecVars,
                   controlVars>>

CallerStep(c) ==
    \/ Call(c)
    \/ ResolveSource(c)
    \/ PublishTarget(c)
    \/ ValidateModelConfig(c)
    \/ ResetScores(c)
    \/ EnqueueBatch(c)
    \/ PollTracker(c)
    \/ CollectScores(c)


\* ------------------------------------------------------------ worker pool
\* a worker takes the oldest work item of the queue
WorkerPop(w) ==
    /\ wk_pc[w] = "idle"
    /\ processor_queue # <<>>
    /\ wk_item' = [wk_item EXCEPT ![w] = Head(processor_queue)]
    /\ processor_queue' = Tail(processor_queue)
    /\ wk_pc' = [wk_pc EXCEPT ![w] = "process"]
    /\ UNCHANGED <<storeVars, callVars, pool_reliable, histVars, held, algVars, codecVars,
                   controlVars>>

\* the counts one batch adds to a matrix: 1 for every token in the first topic
Increase(m) ==
    [m EXCEPT !.val = [i \in 1..Len(m.token) |->
                          [j \in 1..Len(m.topic_name) |->
                              IF j = 1 THEN m.val[i][j] + 1 ELSE m.val[i][j]]]]

\* the worker processes its item: it adds the batch's counts to the matrix now
\* published under the item's target name and merges its score into the shared
\* accumulator
WorkerProcess(w) ==
    /\ wk_pc[w] = "process"
    /\ LET pi == wk_item[w]
           target == IF pi.nwt_target_name = NoName THEN NullPtr
                     ELSE phi[pi.nwt_target_name] IN
        /\ heap' = IF target = NullPtr THEN heap
                   ELSE [heap EXCEPT ![target] = Increase(@)]
        /\ scores' = [scores EXCEPT ![pi.model_name] = @ + 1]
    /\ wk_pc' = [wk_pc EXCEPT ![w] = "ack"]
    /\ UNCHANGED <<topic_model, phi, callVars, processor_queue, wk_item,
                   pool_reliable, histVars, held, algVars, codecVars,
                   controlVars>>

\* the worker acknowledges its item: notifiable->Callback(task_id, model_name)
WorkerAck(w) ==
    /\ wk_pc[w] = "ack"
    /\ in_progress' = [in_progress EXCEPT
                          ![wk_item[w].notifiable] =
                              BatchManagerCallback(@, wk_item[w].task_id)]
    /\ acked' = acked \cup {wk_item[w].task_id}
    /\ wk_pc' = [wk_pc EXCEPT ![w] = "idle"]
    /\ wk_item' = [wk_item EXCEPT ![w] = NoItem]
    /\ UNCHANGED <<storeVars, pc, args, p_wt, batch_index, next_uuid, result, err,
                   processor_queue, pool_reliable, registered, pushed, lost, phi0,
                   heap0, scores0, held, algVars, codecVars,
                   controlVars>>

\* a pool that breaks its guarantee drops the item without acknowledging it
WorkerLose(w) ==
    /\ ~pool_reliable
    /\ wk_pc[w] = "ack"
    /\ wk_pc' = [wk_pc EXCEPT ![w] = "idle"]
    /\ wk_item' = [wk_item EXCEPT ![w] = NoItem]
    /\ lost' = lost \cup {wk_item[w].task_id}
    /\ UNCHANGED <<storeVars, callVars, processor_queue, pool_reliable, registered,
                   pushed, acked, phi0, heap0, scores0, held, algVars, codecVars,
                   controlVars>>

WorkerStep(w) ==
    \/ WorkerPop(w)
    \/ WorkerProcess(w)
    \/ WorkerAck(w)
    \/ WorkerLose(w)

\* ----------------------------------------------------------------- reader
NotHeld == [obj |-> NullPtr, snap |-> NewMatrix(<<>>)]

\* another thread fetches the matrix published under a name and keeps it
ReaderFetch ==
    /\ \E n \in ModelNames :
        /\ HasPhiMatrix(n)
        /\ held' = [obj |-> phi[n], snap |-> heap[phi[n]]]
    /\ UNCHANGED <<storeVars, callVars, poolVars, histVars, algVars, codecVars,
                   controlVars>>

\* --------------------------------------------------- dispatch specification
InitCall ==
    /\ pc = [c \in Callers |-> "idle"]
    /\ args = [c \in Callers |-> NoArgs]
    /\ p_wt = [c \in Callers |-> NullPtr]
    /\ batch_index = [c \in Callers |-> 0]
    /\ in_progress = [c \in Callers |-> {}]
    /\ next_uuid = 0
    /\ result = [c \in Callers |-> 0]
    /\ err = [c \in Callers |-> "none"]
    /\ registered = [c \in Callers |-> <<>>]
    /\ pushed = [c \in Callers |-> <<>>]
    /\ acked = {}
    /\ lost = {}
    /\ phi0 = phi /\ heap0 = heap /\ scores0 = scores

InitPool ==
    /\ processor_queue = <<>>
    /\ wk_pc = [w \in Workers |-> "idle"]
    /\ wk_item = [w \in Workers |-> NoItem]

Paths == {"f"}

NoFile == [exists |-> FALSE, bytes |-> <<>>]

NoStream == [pos |-> 0, eof |-> FALSE, fail |-> FALSE]

InitCodec ==
    /\ fs = [f \in Paths |-> NoFile]
    /\ tampered = FALSE
    /\ ex_pc = "idle"
    /\ ex_args = [model_name |-> "a", file_name |-> "f"]
    /\ ex_nwt = NullPtr
    /\ ex_token_id = 0
    /\ ex_pending = <<>>
    /\ ex_err = "none"
    /\ im_pc = "idle"
    /\ im_args = [file_name |-> "f", model_name |-> "a"]
    /\ im_fin = NoStream
    /\ im_version = 0
    /\ im_length = 0
    /\ im_target = NullPtr
    /\ im_chunks = 0
    /\ im_err = "none"

\* args.timeout_milliseconds() = -1: wait without a limit
Unbounded == -1

NoWaitArgs == [timeout_milliseconds |-> Unbounded]

InitWait ==
    /\ wi_pc = "idle"
    /\ wi_args = NoWaitArgs
    /\ wi_timeout = Unbounded
    /\ wi_new_args = NoWaitArgs
    /\ wi_retval = FALSE
    /\ wi_elapsed = 0
    /\ wi_invoked = <<>>
    /\ wi_result = FALSE

\* has_processor_queue_max_size() = false
Unset == 0

DiskPaths == {"d1", "d2"}

\* MasterComponentConfig: the fields Reconfigure and ValidateConfig read
MasterComponentConfig ==
    [disk_path : DiskPaths, processors_count : {1, 2},
     processor_queue_max_size : {Unset, 1, 3}]

\* lines 198-202: the copy of user_config, its queue size defaulted to the
\* number of processors
WithQueueSize(user_config) ==
    IF user_config.processor_queue_max_size = Unset
    THEN [user_config EXCEPT !.processor_queue_max_size = user_config.processors_count]
    ELSE user_config

\* no ModelConfig under a name
NoConfig == [class_weight_size |-> 0, class_id_size |-> 0, use_sparse_bow |-> TRUE,
             present |-> FALSE]

\* lines 35-42: the state the constructor leaves for user_config: the snapshot
\* published, the Instance created, is_configured_ set
Constructed(user_config) ==
    /\ is_configured_ = TRUE
    /\ config_ = WithQueueSize(user_config)
    /\ instance_config = WithQueueSize(user_config)
    /\ model_configs = [n \in ModelNames |-> NoConfig]
    /\ rc_pc = "idle" /\ rc_args = user_config /\ rc_err = "none"
    /\ cm_pc = "idle" /\ cm_args = [name |-> "a", config |-> NoConfig] /\ cm_err = "none"
    /\ config_held = WithQueueSize(user_config)
    /\ cfg0 = [config_ |-> WithQueueSize(user_config),
               instance_config |-> WithQueueSize(user_config),
               model_configs |-> [n \in ModelNames |-> NoConfig]]

InitConfig ==
    Constructed([disk_path |-> "d1", processors_count |-> 2,
                 processor_queue_max_size |-> Unset])

InitControl == InitWait /\ InitConfig

InitAlgebra ==
    /\ op = "none"
    /\ op_pc = "idle"
    /\ op_args = NoArgs
    /\ op_i = 0
    /\ op_target = NullPtr
    /\ op_nwt = NoLookup
    /\ op_pwt = NullPtr
    /\ op_err = "none"
    /\ publishes = 0

Init ==
    /\ InitStore
    /\ InitCall
    /\ InitPool
    /\ pool_reliable \in BOOLEAN
    /\ held = NotHeld
    /\ InitAlgebra
    /\ InitCodec
    /\ InitControl

Next ==
    \/ \E c \in Callers : CallerStep(c)
    \/ \E w \in Workers : WorkerStep(w)
    \/ ReaderFetch

Spec == Init /\ [][Next]_vars

\* the scheduler runs every thread that can take a step: the caller's poll loop
\* and each worker of the pool
SpecFair ==
    /\ Init /\ [][Next]_vars
    /\ \A c \in Callers : WF_vars(CallerStep(c))
    /\ \A w \in Workers : WF_vars(WorkerStep(w))


\* ------------------------------------------------------------ claims C1-C4
\* C1: a call with N batch references registers exactly N pairwise-distinct ids
\* with its tracker and enqueues exactly N work items, one per batch reference in
\* list order, each carrying its own registered id; the call does not get past
\* its wait before every one of the N ids has been acknowledged, whatever the
\* workers acknowledged while the loop was still enqueueing.
C1_RegistersAndWaitsForAll ==
    \A c \in Callers :
        /\ pc[c] \in {"loop", "wait", "collect", "done"} =>
            /\ Len(registered[c]) = batch_index[c]
            /\ Len(pushed[c]) = batch_index[c]
            /\ Cardinality(Range(registered[c])) = Len(registered[c])
            /\ \A i \in 1..Len(pushed[c]) :
                /\ pushed[c][i].batch_filename = i
                /\ pushed[c][i].task_id = registered[c][i]
                /\ pushed[c][i].notifiable = c
        /\ pc[c] \in {"wait", "collect", "done"} =>
            batch_index[c] = args[c].batches
        /\ pc[c] \in {"collect", "done"} =>
            /\ Range(registered[c]) \subseteq acked
            /\ Cardinality(acked \cap Range(registered[c])) = args[c].batches

\* a call with the largest number of batches has returned
C1_Witness ==
    \E c \in Callers :
        /\ pc[c] = "done"
        /\ args[c].batches = MaxBatches
        /\ Len(pushed[c]) = MaxBatches

\* an early item is acknowledged while a later one is not yet registered
C1_EarlyAckReached ==
    \E c \in Callers :
        /\ pc[c] = "loop"
        /\ batch_index[c] < args[c].batches
        /\ acked \cap Range(registered[c]) # {}

\* C2: with a pool that acknowledges every item it was given and a scheduler
\* that runs the workers and the polling caller, every call that passed
\* validation returns; and a call of which an enqueued id is never acknowledged
\* (the pool dropped it) never gets past its wait.
C2_ReturnsIffAllAcknowledged ==
    /\ \A c \in Callers : (pool_reliable /\ pc[c] = "reset") ~> (pc[c] = "done")
    /\ \A c \in Callers :
        [](Range(registered[c]) \cap lost # {} => pc[c] \notin {"collect", "done"})

\* a validated call of the largest size has returned under a reliable pool
C2_Witness ==
    \E c \in Callers :
        /\ pool_reliable
        /\ pc[c] = "done"
        /\ Cardinality(Range(registered[c])) = MaxBatches
        /\ in_progress[c] = {}

\* a call waits although its queue is drained: one of its ids was dropped
C2_LostReached ==
    \E c \in Callers :
        /\ pc[c] = "wait"
        /\ Range(registered[c]) \cap lost # {}
        /\ processor_queue = <<>>
        /\ \A w \in Workers : wk_pc[w] = "idle"

\* the source name of the call resolved to nothing when the call was made
SourceMissing(c) ==
    /\ topic_model[args[c].pwt_source_name] = NoTopicModel
    /\ phi0[args[c].pwt_source_name] = NullPtr

\* C3: a call whose source name resolves to neither a versioned model nor a raw
\* matrix, or whose target name equals its source name, fails with
\* invalid-operation; nothing was enqueued, no id was registered, no matrix was
\* published or replaced in the store and the score accumulator was not reset.
C3_FailsBeforeAnyEffect ==
    \A c \in Callers :
        (/\ pc[c] \notin {"idle", "resolve", "target"}
         /\ \/ SourceMissing(c)
            \/ args[c].nwt_target_name = args[c].pwt_source_name) =>
            /\ pc[c] = "failed"
            /\ err[c] = "InvalidOperation"
            /\ registered[c] = <<>>
            /\ pushed[c] = <<>>
            /\ processor_queue = <<>>
            /\ phi = phi0
            /\ heap = heap0
            /\ scores = scores0

\* a call that asked for a reset and named batches failed on target = source
C3_Witness ==
    \E c \in Callers :
        /\ pc[c] = "failed"
        /\ ~SourceMissing(c)
        /\ args[c].nwt_target_name = args[c].pwt_source_name
        /\ args[c].reset_scores
        /\ args[c].batches > 0

\* a call failed on a source name that resolves to nothing
C3_MissingSourceReached ==
    \E c \in Callers :
        /\ pc[c] = "failed"
        /\ SourceMissing(c)
        /\ args[c].nwt_target_name \notin {NoName, args[c].pwt_source_name}

\* C4: a matrix object published in the Matrix Store is never modified after
\* its publication: what a reader fetched by name stays what it was when the
\* reader fetched it, also while a dispatch round is in flight.
C4_PublishedNeverModified ==
    held.obj # NullPtr => heap[held.obj] = held.snap


\* ---------------------------------------------------------- matrix algebra
\* what the algebra operations leave alone
dispatchVars ==
    <<callVars, poolVars, registered, pushed, acked, lost, scores0, codecVars,
      controlVars>>

SeqsUpTo(S, n) == UNION {[1..k -> S] : k \in 0..n}

\* source_weight values: a merge may scale and may subtract
Weights == {2, -1}

\* the weight of (token, topic j) in m, 0 for a token m does not have
Val(m, tok, j) ==
    IF \E i \in 1..Len(m.token) : m.token[i] = tok
    THEN m.val[CHOOSE i \in 1..Len(m.token) : m.token[i] = tok][j]
    ELSE 0

\* PhiMatrixOperations::ApplyTopicModelOperation(src, w, target): tokens the
\* target lacks are added at its end, then w * src is added cell by cell
ApplyTopicModelOperation(src, w, target) ==
    LET fresh == SelectSeq(src.token, LAMBDA t : t \notin TokenSet(target))
        tokens == target.token \o fresh IN
    Matrix(target.topic_name, tokens,
           [i \in 1..Len(tokens) |->
               [j \in 1..Len(target.topic_name) |->
                   Val(target, tokens[i], j) + w * Val(src, tokens[i], j)]])

MergeModelArgs ==
    [nwt_source_name : SeqsUpTo(ModelNames, MaxSources),
     source_weight : SeqsUpTo(Weights, MaxSources),
     nwt_target_name : ModelNames]

\* the command is issued
MergeCall ==
    /\ op_pc = "idle"
    /\ \E a \in MergeModelArgs : op_args' = a
    /\ op' = "merge"
    /\ op_pc' = "check"
    /\ phi0' = phi /\ heap0' = heap
    /\ UNCHANGED <<storeVars, dispatchVars, held, op_i, op_target, op_nwt, op_pwt,
                   op_err, publishes>>

\* lines 338-342: the source list is not empty and as long as the weight list
MergeCheckArgs ==
    /\ op = "merge" /\ op_pc = "check"
    /\ IF \/ Len(op_args.nwt_source_name) = 0
          \/ Len(op_args.nwt_source_name) # Len(op_args.source_weight)
       THEN op_pc' = "failed" /\ op_err' = "InvalidOperation"
       ELSE op_pc' = "loop" /\ UNCHANGED op_err
    /\ UNCHANGED <<storeVars, dispatchVars, phi0, heap0, held, op, op_args, op_i,
                   op_target, op_nwt, op_pwt, publishes>>

\* a lookup of the counts source that reads the versioned model's Pwt
ResolvePwtAsCounts(name) ==
    IF HasTopicModel(name) THEN topic_model[name].pwt ELSE phi[name]

\* line 358: the counts of a source: the versioned model's Nwt, else the raw matrix
MergeSourceCounts(name) == ResolveNwt(name)

\* lines 346-371: one iteration: a source that does not exist is skipped; the
\* first located source allocates the target (off to the side); a source with
\* tokens is added with its weight
MergeIteration ==
    /\ op = "merge" /\ op_pc = "loop"
    /\ IF op_i < Len(op_args.nwt_source_name)
       THEN LET name == op_args.nwt_source_name[op_i + 1]
                weight == op_args.source_weight[op_i + 1] IN
            /\ op_i' = op_i + 1
            /\ UNCHANGED op_pc
            /\ IF ~HasTopicModel(name) /\ ~HasPhiMatrix(name)
               THEN UNCHANGED <<heap, op_target>>
               ELSE LET n_wt == heap[MergeSourceCounts(name)]
                        fresh == op_target = NullPtr
                        id == IF fresh THEN Len(heap) + 1 ELSE op_target
                        before == IF fresh THEN NewMatrix(n_wt.topic_name)
                                  ELSE heap[op_target]
                        after == IF Len(n_wt.token) > 0
                                 THEN ApplyTopicModelOperation(n_wt, weight, before)
                                 ELSE before IN
                    /\ op_target' = id
                    /\ heap' = IF fresh THEN Append(heap, after)
                               ELSE [heap EXCEPT ![id] = after]
       ELSE /\ op_pc' = "publish"
            /\ UNCHANGED <<heap, op_i, op_target>>
    /\ UNCHANGED <<topic_model, scores, dispatchVars, phi0, heap0, held, op, op_args,
                   op_nwt, op_pwt, op_err, publishes>>

\* a loop that publishes the target as soon as it is allocated
MergeSourcePublishing ==
    /\ MergeIteration
    /\ phi' = IF op_target' # NullPtr
              THEN [phi EXCEPT ![op_args.nwt_target_name] = op_target']
              ELSE phi

\* the loop itself never calls SetPhiMatrix
MergeSource ==
    /\ MergeIteration
    /\ UNCHANGED phi

\* merger()->SetPhiMatrix(name, target): the name now refers to the new object
SetPhiMatrix(name, target) == [phi EXCEPT ![name] = target]

\* a last step that publishes whatever it has, an empty matrix when no source
\* was found
MergePublishAlways ==
    /\ op = "merge" /\ op_pc = "publish"
    /\ IF op_target = NullPtr
       THEN /\ heap' = Append(heap, NewMatrix(TopicNames))
            /\ phi' = SetPhiMatrix(op_args.nwt_target_name, Len(heap) + 1)
            /\ op_pc' = "failed" /\ op_err' = "InvalidOperation"
            /\ UNCHANGED publishes
       ELSE /\ phi' = SetPhiMatrix(op_args.nwt_target_name, op_target)
            /\ publishes' = publishes + 1
            /\ op_pc' = "done"
            /\ UNCHANGED <<heap, op_err>>
    /\ UNCHANGED <<topic_model, scores, dispatchVars, phi0, heap0, held, op, op_args,
                   op_i, op_target, op_nwt, op_pwt>>

\* lines 373-377: no source located: InvalidOperation; else the target is published
MergePublish ==
    /\ op = "merge" /\ op_pc = "publish"
    /\ IF op_target = NullPtr
       THEN /\ op_pc' = "failed" /\ op_err' = "InvalidOperation"
            /\ UNCHANGED <<phi, publishes>>
       ELSE /\ phi' = SetPhiMatrix(op_args.nwt_target_name, op_target)
            /\ publishes' = publishes + 1
            /\ op_pc' = "done"
            /\ UNCHANGED op_err
    /\ UNCHANGED <<heap, topic_model, scores, dispatchVars, phi0, heap0, held, op,
                   op_args, op_i, op_target, op_nwt, op_pwt>>

MergeModel ==
    \/ MergeCall
    \/ MergeCheckArgs
    \/ MergeSource
    \/ MergePublish


\* ----------------------------------------------------------- RegularizeModel
OptionalNames == ModelNames \cup {NoName}

RegularizeModelArgs ==
    [pwt_source_name : OptionalNames,
     nwt_source_name : OptionalNames,
     rwt_target_name : OptionalNames,
     regularizers : {0, 1}]

RegularizeCall ==
    /\ op_pc = "idle"
    /\ \E a \in RegularizeModelArgs : op_args' = a
    /\ op' = "regularize"
    /\ op_pc' = "check"
    /\ phi0' = phi /\ heap0' = heap
    /\ UNCHANGED <<storeVars, dispatchVars, held, op_i, op_target, op_nwt, op_pwt,
                   op_err, publishes>>

\* lines 386-391: the three names must be given
RegularizeCheckArgs ==
    /\ op = "regularize" /\ op_pc = "check"
    /\ IF NoName \in {op_args.pwt_source_name, op_args.nwt_source_name,
                      op_args.rwt_target_name}
       THEN op_pc' = "failed" /\ op_err' = "InvalidOperation"
       ELSE op_pc' = "resolve" /\ UNCHANGED op_err
    /\ UNCHANGED <<storeVars, dispatchVars, phi0, heap0, held, op, op_args, op_i,
                   op_target, op_nwt, op_pwt, publishes>>

\* lines 393-403: both sources are looked up; a missing one is InvalidOperation
RegularizeResolve ==
    /\ op = "regularize" /\ op_pc = "resolve"
    /\ LET nwt == op_args.nwt_source_name
           pwt == op_args.pwt_source_name IN
        IF ~HasPhiMatrix(nwt) /\ ~HasTopicModel(nwt)
        THEN /\ op_pc' = "failed" /\ op_err' = "InvalidOperation"
             /\ UNCHANGED <<op_nwt, op_pwt>>
        ELSE /\ op_nwt' = [phi_matrix |-> phi[nwt], topic_model |-> topic_model[nwt],
                           n_wt |-> ResolveNwt(nwt)]
             /\ IF ~HasPhiMatrix(pwt) /\ ~HasTopicModel(pwt)
                THEN /\ op_pc' = "failed" /\ op_err' = "InvalidOperation"
                     /\ UNCHANGED op_pwt
                ELSE /\ op_pwt' = ResolvePwt(pwt)
                     /\ op_pc' = "alloc"
                     /\ UNCHANGED op_err
    /\ UNCHANGED <<storeVars, dispatchVars, phi0, heap0, held, op, op_args, op_i,
                   op_target, publishes>>

\* lines 405-406: the target takes the topic names and the shape of
\* *nwt_phi_matrix, the raw-matrix lookup; where that pointer is null the
\* dereference ends the process
RegularizeAllocate ==
    /\ op = "regularize" /\ op_pc = "alloc"
    /\ IF op_nwt.phi_matrix = NullPtr
       THEN /\ op_pc' = "crashed"
            /\ UNCHANGED <<heap, op_target>>
       ELSE /\ heap' = Append(heap, Reshape(heap[op_nwt.phi_matrix]))
            /\ op_target' = Len(heap) + 1
            /\ op_pc' = "fill"
    /\ UNCHANGED <<topic_model, phi, scores, dispatchVars, phi0, heap0, held, op,
                   op_args, op_i, op_nwt, op_pwt, op_err, publishes>>

\* PhiMatrixOperations::InvokePhiRegularizers: every regularizer adds its
\* contribution, a function of p_wt and n_wt, to the target
InvokePhiRegularizers(count, pw, nw, target) ==
    [target EXCEPT !.val =
        [i \in 1..Len(target.token) |->
            [j \in 1..Len(target.topic_name) |->
                target.val[i][j]
                + count * (Val(nw, target.token[i], j) - Val(pw, target.token[i], j))]]]

\* lines 407-408
RegularizeInvoke ==
    /\ op = "regularize" /\ op_pc = "fill"
    /\ heap' = [heap EXCEPT ![op_target] =
                   InvokePhiRegularizers(op_args.regularizers, heap[op_pwt],
                                         heap[op_nwt.n_wt], @)]
    /\ op_pc' = "publish"
    /\ UNCHANGED <<topic_model, phi, scores, dispatchVars, phi0, heap0, held, op,
                   op_args, op_i, op_target, op_nwt, op_pwt, op_err, publishes>>

\* line 409
RegularizePublish ==
    /\ op = "regularize" /\ op_pc = "publish"
    /\ phi' = SetPhiMatrix(op_args.rwt_target_name, op_target)
    /\ publishes' = publishes + 1
    /\ op_pc' = "done"
    /\ UNCHANGED <<heap, topic_model, scores, dispatchVars, phi0, heap0, held, op,
                   op_args, op_i, op_target, op_nwt, op_pwt, op_err>>

RegularizeModel ==
    \/ RegularizeCall
    \/ RegularizeCheckArgs
    \/ RegularizeResolve
    \/ RegularizeAllocate
    \/ RegularizeInvoke
    \/ RegularizePublish

\* ------------------------------------------------------------ NormalizeModel
NormalizeModelArgs ==
    [pwt_target_name : OptionalNames,
     nwt_source_name : OptionalNames,
     rwt_source_name : OptionalNames]

NormalizeCall ==
    /\ op_pc = "idle"
    /\ \E a \in NormalizeModelArgs : op_args' = a
    /\ op' = "normalize"
    /\ op_pc' = "check"
    /\ phi0' = phi /\ heap0' = heap
    /\ UNCHANGED <<storeVars, dispatchVars, held, op_i, op_target, op_nwt, op_pwt,
                   op_err, publishes>>

\* lines 418-421: the target and the counts source must be given
NormalizeCheckArgs ==
    /\ op = "normalize" /\ op_pc = "check"
    /\ IF NoName \in {op_args.pwt_target_name, op_args.nwt_source_name}
       THEN op_pc' = "failed" /\ op_err' = "InvalidOperation"
       ELSE op_pc' = "resolve" /\ UNCHANGED op_err
    /\ UNCHANGED <<storeVars, dispatchVars, phi0, heap0, held, op, op_args, op_i,
                   op_target, op_nwt, op_pwt, publishes>>

\* line 427: the counts of NormalizeModel: the versioned model's GetPwt(), else
\* the raw matrix
NormalizeSourceCounts(name) ==
    IF HasTopicModel(name) THEN topic_model[name].pwt ELSE phi[name]

\* lines 423-436: the counts source must exist; so must the regularization
\* term when one is named
NormalizeResolve ==
    /\ op = "normalize" /\ op_pc = "resolve"
    /\ LET nwt == op_args.nwt_source_name
           rwt == op_args.rwt_source_name IN
        IF ~HasTopicModel(nwt) /\ ~HasPhiMatrix(nwt)
        THEN /\ op_pc' = "failed" /\ op_err' = "InvalidOperation"
             /\ UNCHANGED <<op_nwt, op_pwt>>
        ELSE /\ op_nwt' = [phi_matrix |-> phi[nwt], topic_model |-> topic_model[nwt],
                           n_wt |-> NormalizeSourceCounts(nwt)]
             /\ IF rwt = NoName
                THEN /\ op_pwt' = NullPtr
                     /\ op_pc' = "alloc"
                     /\ UNCHANGED op_err
                ELSE IF ~HasTopicModel(rwt) /\ ~HasPhiMatrix(rwt)
                THEN /\ op_pc' = "failed" /\ op_err' = "InvalidOperation"
                     /\ UNCHANGED op_pwt
                ELSE /\ op_pwt' = ResolvePwt(rwt)
                     /\ op_pc' = "alloc"
                     /\ UNCHANGED op_err
    /\ UNCHANGED <<storeVars, dispatchVars, phi0, heap0, held, op, op_args, op_i,
                   op_target, publishes>>

\* lines 438-439: the target is allocated and reshaped to the counts
NormalizeAllocate ==
    /\ op = "normalize" /\ op_pc = "alloc"
    /\ heap' = Append(heap, Reshape(heap[op_nwt.n_wt]))
    /\ op_target' = Len(heap) + 1
    /\ op_pc' = "fill"
    /\ UNCHANGED <<topic_model, phi, scores, dispatchVars, phi0, heap0, held, op,
                   op_args, op_i, op_nwt, op_pwt, op_err, publishes>>

\* the probability 1.0, in the fixed-point unit of the model
ProbabilityOne == 12

Positive(x) == IF x > 0 THEN x ELSE 0

RECURSIVE ColumnSum(_, _, _, _)
\* the sum over the first k tokens of the positive parts of n + r in topic j
ColumnSum(nw, rw, j, k) ==
    IF k = 0 THEN 0
    ELSE ColumnSum(nw, rw, j, k - 1)
         + Positive(nw.val[k][j] + Val(rw, nw.token[k], j))

\* PhiMatrixOperations::FindPwt(n_wt, r_wt, target): per topic, the positive
\* part of n + r over its sum over all tokens; an all-zero column stays zero
FindPwt(nw, rw, target) ==
    [target EXCEPT !.val =
        [i \in 1..Len(nw.token) |->
            [j \in 1..Len(nw.topic_name) |->
                LET sum == ColumnSum(nw, rw, j, Len(nw.token)) IN
                IF sum = 0 THEN 0
                ELSE (Positive(nw.val[i][j] + Val(rw, nw.token[i], j)) * ProbabilityOne)
                     \div sum]]]

\* lines 440-441: without a regularization term r is zero everywhere
NormalizeFindPwt ==
    /\ op = "normalize" /\ op_pc = "fill"
    /\ heap' = [heap EXCEPT ![op_target] =
                   FindPwt(heap[op_nwt.n_wt],
                           IF op_pwt = NullPtr THEN NewMatrix(TopicNames)
                           ELSE heap[op_pwt], @)]
    /\ op_pc' = "publish"
    /\ UNCHANGED <<topic_model, phi, scores, dispatchVars, phi0, heap0, held, op,
                   op_args, op_i, op_target, op_nwt, op_pwt, op_err, publishes>>

\* line 442
NormalizePublish ==
    /\ op = "normalize" /\ op_pc = "publish"
    /\ phi' = SetPhiMatrix(op_args.pwt_target_name, op_target)
    /\ publishes' = publishes + 1
    /\ op_pc' = "done"
    /\ UNCHANGED <<heap, topic_model, scores, dispatchVars, phi0, heap0, held, op,
                   op_args, op_i, op_target, op_nwt, op_pwt, op_err>>

NormalizeModel ==
    \/ NormalizeCall
    \/ NormalizeCheckArgs
    \/ NormalizeResolve
    \/ NormalizeAllocate
    \/ NormalizeFindPwt
    \/ NormalizePublish

\* ------------------------------------------------ matrix algebra specification
\* the store before the command: as for the dispatch, and "a" may also be a
\* raw matrix beside the versioned model of that name; the counts of "a" are
\* not a multiple of its probabilities
InitStoreAlgebra ==
    /\ heap = [Append(InitHeap, Matrix(TopicNames, <<"z", "x">>, << <<5, 0>>, <<1, 1>> >>))
                 EXCEPT ![2] = Matrix(TopicNames, <<"x", "y">>, << <<1, 1>>, <<0, 2>> >>)]
    /\ topic_model = [n \in ModelNames |->
                        IF n = "a" THEN [pwt |-> 1, nwt |-> 2] ELSE NoTopicModel]
    /\ \E both \in BOOLEAN :
        phi = [n \in ModelNames |->
                  IF n = "b" THEN 3 ELSE IF n = "a" /\ both THEN 4 ELSE NullPtr]
    /\ scores = [n \in ModelNames |-> 1]

InitAlg ==
    /\ InitStoreAlgebra
    /\ InitCall
    /\ InitPool
    /\ pool_reliable = TRUE
    /\ held = NotHeld
    /\ InitAlgebra
    /\ InitCodec
    /\ InitControl

NextAlg ==
    \/ MergeModel
    \/ RegularizeModel
    \/ NormalizeModel
    \/ ReaderFetch

SpecAlgebra == InitAlg /\ [][NextAlg]_vars


\* ------------------------------------------------------------ claims C5-C7
\* the name the operation in progress publishes under
TargetName ==
    IF op = "merge" THEN op_args.nwt_target_name
    ELSE IF op = "regularize" THEN op_args.rwt_target_name
    ELSE op_args.pwt_target_name

OpRunning == op_pc \in {"check", "resolve", "loop", "alloc", "fill", "publish"}

\* the matrices that were published when the operation was called are what
\* they were then
PublishedUnchanged ==
    \A n \in ModelNames : phi0[n] # NullPtr => heap[phi0[n]] = heap0[phi0[n]]

\* C5: MergeModel, RegularizeModel and NormalizeModel publish their target
\* exactly once, as their last step, after it has been built off to the side:
\* until then nothing is published and the target under construction is not
\* reachable by name nor held by a reader; a reader's matrix, and every matrix
\* published before the call, stay unchanged, also when the target name is one
\* of the source names.
C5_PublishOnceAfterBuild ==
    /\ held.obj # NullPtr => heap[held.obj] = held.snap
    /\ PublishedUnchanged
    /\ OpRunning =>
        /\ publishes = 0
        /\ phi = phi0
        /\ op_target # NullPtr =>
            /\ op_target # held.obj
            /\ \A n \in ModelNames : phi[n] # op_target
    /\ op_pc = "done" =>
        /\ publishes = 1
        /\ phi = [phi0 EXCEPT ![TargetName] = op_target]
        /\ op_target > Len(heap0)
        /\ op = "merge" => op_i = Len(op_args.nwt_source_name)
    /\ op_pc \in {"failed", "crashed"} => publishes = 0 /\ phi = phi0

\* an operation whose target name is also its source has published while a
\* reader holds the matrix previously published under that name
C5_Witness ==
    /\ op_pc = "done"
    /\ held.obj # NullPtr
    /\ held.obj = phi0[TargetName]
    /\ phi[TargetName] # held.obj
    /\ \/ op = "merge" /\ TargetName \in Range(op_args.nwt_source_name)
       \/ op = "regularize" /\ TargetName = op_args.nwt_source_name
       \/ op = "normalize" /\ TargetName = op_args.nwt_source_name

\* the name resolved to a matrix when the operation was called
Existed(name) == topic_model[name] # NoTopicModel \/ phi0[name] # NullPtr

\* the counts held under the name when the operation was called, the versioned
\* model's Nwt first
CountsAtCall(name) ==
    heap0[IF topic_model[name] # NoTopicModel THEN topic_model[name].nwt ELSE phi0[name]]

RECURSIVE WeightedSum(_, _, _)
\* the sum over the first k listed sources that exist of weight * count
WeightedSum(tok, j, k) ==
    IF k = 0 THEN 0
    ELSE WeightedSum(tok, j, k - 1)
         + (IF Existed(op_args.nwt_source_name[k])
            THEN op_args.source_weight[k]
                 * Val(CountsAtCall(op_args.nwt_source_name[k]), tok, j)
            ELSE 0)

ExistingSources ==
    {n \in Range(op_args.nwt_source_name) : Existed(n)}

MergeWellFormed ==
    /\ Len(op_args.nwt_source_name) > 0
    /\ Len(op_args.nwt_source_name) = Len(op_args.source_weight)

C6_TwiceReached ==
    /\ op = "merge" /\ op_pc = "done"
    /\ Len(op_args.nwt_source_name) = 2
    /\ op_args.nwt_source_name[1] = op_args.nwt_source_name[2]

\* C7: a MergeModel call with an empty source list, with lists of different
\* lengths or with no existing source fails with invalid-operation and
\* publishes nothing: every name refers to the matrix it referred to before.
C7_MergeFailurePublishesNothing ==
    (op = "merge" /\ op_pc \notin {"idle", "check", "loop", "publish"}
     /\ (~MergeWellFormed \/ ExistingSources = {})) =>
        /\ op_pc = "failed"
        /\ op_err = "InvalidOperation"
        /\ publishes = 0
        /\ phi = phi0
        /\ \A n \in ModelNames : phi[n] # NullPtr => heap[phi[n]] = heap0[phi[n]]

\* a well-formed merge into an existing name failed: none of its sources exists
C7_Witness ==
    /\ op = "merge" /\ op_pc = "failed"
    /\ MergeWellFormed
    /\ ExistingSources = {}
    /\ phi0[TargetName] # NullPtr
    /\ phi[TargetName] = phi0[TargetName]


\* ------------------------------------------------------ bytes and streams
\* what ExportModel and ImportModel leave alone
nonCodecVars ==
    <<topic_model, scores, callVars, poolVars, histVars, held, algVars, controlVars>>

\* `const char version = 0`
VersionByte == 0

\* the first byte of a serialized ::artm::TopicModel: the tag of its first field
MessageTag == 10

\* the per-chunk budget of line 108 (100 * 1024 * 1024 there), scaled down so
\* that small matrices span several chunks
ChunkBudget == 6

IsDigit(b) == b \in 48..57

\* std::isspace in the "C" locale
IsSpace(b) == b \in {9, 10, 11, 12, 13, 32}

RECURSIVE Decimal(_)
\* operator<<(size_t): the decimal digits of n
Decimal(n) ==
    IF n < 10 THEN <<48 + n>> ELSE Decimal(n \div 10) \o <<48 + (n % 10)>>

\* the keyword of a token as a byte, and back
TokenBytes == 115..122
TokenOfByte(b) == <<"s", "t", "u", "v", "w", "x", "y", "z">>[b - 114]
TokenByte(tok) == CHOOSE b \in TokenBytes : TokenOfByte(b) = tok

RECURSIVE SerializeRows(_, _, _)
\* the records of the first k tokens of the slice: keyword, then its weights
SerializeRows(m, idxs, k) ==
    IF k = 0 THEN <<>>
    ELSE SerializeRows(m, idxs, k - 1)
         \o <<TokenByte(m.token[idxs[k]])>> \o m.val[idxs[k]]

\* RetrieveExternalTopicModel + SerializeAsString of the tokens idxs of m: the
\* tag, the number of topics, one record per token
SerializeAsString(m, idxs) ==
    <<MessageTag, Len(m.topic_name)>> \o SerializeRows(m, idxs, Len(idxs))

\* TopicModel::ParseFromArray(buffer): whether the bytes are a message
ParsesAsMessage(buf) ==
    /\ Len(buf) >= 2
    /\ buf[1] = MessageTag
    /\ buf[2] = Len(TopicNames)
    /\ (Len(buf) - 2) % (Len(TopicNames) + 1) = 0
    /\ \A r \in 0..((Len(buf) - 2) \div (Len(TopicNames) + 1) - 1) :
        buf[3 + r * (Len(TopicNames) + 1)] \in TokenBytes

\* the message the bytes are
ParsedMessage(buf) ==
    LET width == Len(TopicNames) + 1
        count == (Len(buf) - 2) \div width IN
    Matrix(TopicNames,
           [r \in 1..count |-> TokenOfByte(buf[3 + (r - 1) * width])],
           [r \in 1..count |->
               [j \in 1..Len(TopicNames) |-> buf[3 + (r - 1) * width + j]]])

\* --------------------------------------------------------------- ExportModel
Min(a, b) == IF a < b THEN a ELSE b

ExportCall ==
    /\ ex_pc \in {"idle", "done", "failed"}
    /\ im_pc \in {"idle", "done", "failed"}
    /\ ~tampered
    /\ \E n \in ModelNames, f \in Paths : ex_args' = [model_name |-> n, file_name |-> f]
    /\ ex_pc' = "open"
    /\ ex_nwt' = NullPtr /\ ex_token_id' = 0 /\ ex_pending' = <<>> /\ ex_err' = "none"
    /\ UNCHANGED <<heap, phi, nonCodecVars, fs, tampered, imVars>>

\* lines 89-94: an existing destination is DiskWriteException; else the file is
\* created, empty
ExportOpen ==
    /\ ex_pc = "open"
    /\ IF fs[ex_args.file_name].exists
       THEN /\ ex_pc' = "failed" /\ ex_err' = "DiskWrite"
            /\ UNCHANGED fs
       ELSE /\ fs' = [fs EXCEPT ![ex_args.file_name] = [exists |-> TRUE, bytes |-> <<>>]]
            /\ ex_pc' = "resolve"
            /\ UNCHANGED ex_err
    /\ UNCHANGED <<heap, phi, nonCodecVars, tampered, ex_args, ex_nwt, ex_token_id,
                   ex_pending, imVars>>

\* line 100: the matrix ExportModel writes: the versioned model's GetPwt(), else
\* the raw matrix
ExportSource(name) ==
    IF HasTopicModel(name) THEN topic_model[name].pwt ELSE phi[name]

\* lines 96-106: a missing model and a model without tokens are InvalidOperation
ExportResolve ==
    /\ ex_pc = "resolve"
    /\ LET name == ex_args.model_name IN
        IF ~HasTopicModel(name) /\ ~HasPhiMatrix(name)
        THEN /\ ex_pc' = "failed" /\ ex_err' = "InvalidOperation"
             /\ UNCHANGED ex_nwt
        ELSE /\ ex_nwt' = ExportSource(name)
             /\ IF Len(heap[ExportSource(name)].token) = 0
                THEN ex_pc' = "failed" /\ ex_err' = "InvalidOperation"
                ELSE ex_pc' = "header" /\ UNCHANGED ex_err
    /\ UNCHANGED <<heap, phi, nonCodecVars, fs, tampered, ex_args, ex_token_id,
                   ex_pending, imVars>>

\* fout << bytes
Write(f, bytes) == [fs EXCEPT ![f].bytes = @ \o bytes]

\* lines 117-118: the version byte
ExportHeader ==
    /\ ex_pc = "header"
    /\ fs' = Write(ex_args.file_name, <<VersionByte>>)
    /\ ex_pc' = "tokens"
    /\ UNCHANGED <<heap, phi, nonCodecVars, tampered, ex_args, ex_nwt, ex_token_id,
                   ex_pending, ex_err, imVars>>

\* line 108
TokensPerChunk(m) == Min(Len(m.token), ChunkBudget \div Len(m.topic_name))

\* a chunk that is written only when it is full
ChunkFullOnly(m, token_id, pending) == Len(pending) >= TokensPerChunk(m)

\* line 124: the chunk is written with the last token or when it is full
ChunkComplete(m, token_id, pending) ==
    \/ token_id + 1 = Len(m.token)
    \/ Len(pending) >= TokensPerChunk(m)

\* lines 119-133: one iteration: the token joins the open chunk; a complete
\* chunk is written as its decimal length followed at once by its bytes
ExportToken ==
    /\ ex_pc = "tokens"
    /\ LET m == heap[ex_nwt] IN
        IF ex_token_id < Len(m.token)
        THEN LET pending == Append(ex_pending, ex_token_id + 1)
                 str == SerializeAsString(m, pending) IN
             /\ IF ChunkComplete(m, ex_token_id, pending)
                THEN /\ fs' = Write(ex_args.file_name, Decimal(Len(str)) \o str)
                     /\ ex_pending' = <<>>
                ELSE /\ ex_pending' = pending
                     /\ UNCHANGED fs
             /\ ex_token_id' = ex_token_id + 1
             /\ UNCHANGED ex_pc
        ELSE /\ ex_pc' = "done"
             /\ UNCHANGED <<fs, ex_pending, ex_token_id>>
    /\ UNCHANGED <<heap, phi, nonCodecVars, tampered, ex_args, ex_nwt, ex_err, imVars>>

ExportModel ==
    \/ ExportCall
    \/ ExportOpen
    \/ ExportResolve
    \/ ExportHeader
    \/ ExportToken


\* --------------------------------------------------------------- ImportModel
RECURSIVE SkipSpace(_, _)
\* the stream position after the white space that follows position p
SkipSpace(bytes, p) ==
    IF p < Len(bytes) /\ IsSpace(bytes[p + 1]) THEN SkipSpace(bytes, p + 1) ELSE p

RECURSIVE DigitsEnd(_, _)
\* the stream position after the digits that follow position p
DigitsEnd(bytes, p) ==
    IF p < Len(bytes) /\ IsDigit(bytes[p + 1]) THEN DigitsEnd(bytes, p + 1) ELSE p

RECURSIVE DecimalValue(_, _, _)
\* the number the digits between positions from and to spell
DecimalValue(bytes, from, to) ==
    IF to = from THEN 0
    ELSE 10 * DecimalValue(bytes, from, to - 1) + (bytes[to] - 48)

\* fin >> version (char): white space is skipped, then one byte is taken; at
\* the end of the stream nothing is stored and eofbit and failbit are set
ExtractChar(bytes, fin) ==
    LET q == SkipSpace(bytes, fin.pos) IN
    IF q = Len(bytes)
    THEN [stored |-> FALSE, value |-> 0, fin |-> [pos |-> q, eof |-> TRUE, fail |-> TRUE]]
    ELSE [stored |-> TRUE, value |-> bytes[q + 1],
          fin |-> [pos |-> q + 1, eof |-> FALSE, fail |-> FALSE]]

\* fin >> length (int): white space is skipped; at the end of the stream
\* nothing is stored (eofbit, failbit); else an optional sign and the digits
\* that follow are taken: none is failbit and the value 0, and digits that run
\* to the end of the stream set eofbit
ExtractInt(bytes, fin) ==
    LET q == SkipSpace(bytes, fin.pos) IN
    IF q = Len(bytes)
    THEN [stored |-> FALSE, value |-> 0, fin |-> [pos |-> q, eof |-> TRUE, fail |-> TRUE]]
    ELSE LET signed == bytes[q + 1] \in {43, 45}
             from == IF signed THEN q + 1 ELSE q
             to == DigitsEnd(bytes, from)
             magnitude == DecimalValue(bytes, from, to) IN
         IF to = from
         THEN [stored |-> TRUE, value |-> 0,
               fin |-> [pos |-> from, eof |-> from = Len(bytes), fail |-> TRUE]]
         ELSE [stored |-> TRUE,
               value |-> IF signed /\ bytes[q + 1] = 45 THEN 0 - magnitude ELSE magnitude,
               fin |-> [pos |-> to, eof |-> to = Len(bytes), fail |-> FALSE]]

\* std::string buffer(length, '\0'); fin.read(&buffer[0], length): the bytes
\* that are there, the rest of the buffer stays zero
ReadBuffer(bytes, fin, length) ==
    [k \in 1..length |-> IF fin.pos + k <= Len(bytes) THEN bytes[fin.pos + k] ELSE 0]

\* the stream after fin.read: a short read sets eofbit and failbit
AfterRead(bytes, fin, length) ==
    IF fin.pos + length <= Len(bytes)
    THEN [fin EXCEPT !.pos = fin.pos + length]
    ELSE [pos |-> Len(bytes), eof |-> TRUE, fail |-> TRUE]

ImportCall ==
    /\ im_pc = "idle"
    /\ ex_pc \in {"idle", "done", "failed"}
    /\ \E f \in Paths, n \in ModelNames : im_args' = [file_name |-> f, model_name |-> n]
    /\ im_pc' = "open"
    /\ phi0' = phi /\ heap0' = heap
    /\ UNCHANGED <<storeVars, callVars, poolVars, registered, pushed, acked, lost,
                   scores0, held, algVars, fs, tampered, exVars, im_fin, im_version,
                   im_length, im_target, im_chunks, im_err, controlVars>>

\* what ImportModel leaves alone but its own locals
importFrame ==
    <<topic_model, scores, callVars, poolVars, histVars, held, algVars, fs, tampered,
      exVars, im_args, controlVars>>

\* lines 141-143
ImportOpen ==
    /\ im_pc = "open"
    /\ IF ~fs[im_args.file_name].exists
       THEN im_pc' = "failed" /\ im_err' = "DiskRead"
       ELSE im_pc' = "version" /\ UNCHANGED im_err
    /\ im_fin' = NoStream
    /\ UNCHANGED <<heap, phi, importFrame, im_version, im_length, im_target, im_chunks>>

\* the exception of a version byte that is not 0 (line 152)
VersionError == "DiskRead"

\* lines 147-153: `char version` is not initialized: where the extraction
\* stores nothing its value is any byte
ImportVersion ==
    /\ im_pc = "version"
    /\ LET x == ExtractChar(fs[im_args.file_name].bytes, im_fin) IN
        /\ im_fin' = x.fin
        /\ \E v \in IF x.stored THEN {x.value} ELSE {0, 1} :
            /\ im_version' = v
            /\ IF v # 0
               THEN im_pc' = "failed" /\ im_err' = VersionError
               ELSE im_pc' = "length" /\ UNCHANGED im_err
    /\ UNCHANGED <<heap, phi, importFrame, im_length, im_target, im_chunks>>

\* lines 156-163: the loop test, the length token, the break at the end of the
\* stream and the test of the length
ImportLength ==
    /\ im_pc = "length"
    /\ IF im_fin.eof
       THEN /\ im_pc' = "publish"
            /\ UNCHANGED <<im_fin, im_length, im_err>>
       ELSE LET x == ExtractInt(fs[im_args.file_name].bytes, im_fin) IN
            /\ im_fin' = x.fin
            /\ im_length' = IF x.stored THEN x.value ELSE im_length
            /\ IF x.fin.eof
               THEN im_pc' = "publish" /\ UNCHANGED im_err
               ELSE IF x.value <= 0
               THEN im_pc' = "failed" /\ im_err' = "CorruptedMessage"
               ELSE im_pc' = "chunk" /\ UNCHANGED im_err
    /\ UNCHANGED <<heap, phi, importFrame, im_version, im_target, im_chunks>>

\* an import that publishes its target with the first chunk
ImportChunkPublishing ==
    /\ im_pc = "chunk"
    /\ LET bytes == fs[im_args.file_name].bytes
           buffer == ReadBuffer(bytes, im_fin, im_length) IN
        /\ im_fin' = AfterRead(bytes, im_fin, im_length)
        /\ IF ~ParsesAsMessage(buffer)
           THEN /\ im_pc' = "failed" /\ im_err' = "CorruptedMessage"
                /\ UNCHANGED <<heap, phi, im_target, im_chunks>>
           ELSE LET msg == ParsedMessage(buffer)
                    fresh == im_target = NullPtr
                    id == IF fresh THEN Len(heap) + 1 ELSE im_target
                    before == IF fresh THEN NewMatrix(msg.topic_name) ELSE heap[im_target]
                    after == ApplyTopicModelOperation(msg, 1, before) IN
                /\ heap' = IF fresh THEN Append(heap, after) ELSE [heap EXCEPT ![id] = after]
                /\ phi' = SetPhiMatrix(im_args.model_name, id)
                /\ im_target' = id
                /\ im_chunks' = im_chunks + 1
                /\ im_pc' = "length"
                /\ UNCHANGED im_err
    /\ UNCHANGED <<importFrame, im_version, im_length>>

\* lines 165-176: the chunk is read into a zeroed buffer and parsed; the first
\* chunk allocates the target; the chunk is added with weight 1
ImportChunk ==
    /\ im_pc = "chunk"
    /\ LET bytes == fs[im_args.file_name].bytes
           buffer == ReadBuffer(bytes, im_fin, im_length) IN
        /\ im_fin' = AfterRead(bytes, im_fin, im_length)
        /\ IF ~ParsesAsMessage(buffer)
           THEN /\ im_pc' = "failed" /\ im_err' = "CorruptedMessage"
                /\ UNCHANGED <<heap, im_target, im_chunks>>
           ELSE LET msg == ParsedMessage(buffer)
                    fresh == im_target = NullPtr
                    id == IF fresh THEN Len(heap) + 1 ELSE im_target
                    before == IF fresh THEN NewMatrix(msg.topic_name) ELSE heap[im_target]
                    after == ApplyTopicModelOperation(msg, 1, before) IN
                /\ heap' = IF fresh THEN Append(heap, after) ELSE [heap EXCEPT ![id] = after]
                /\ im_target' = id
                /\ im_chunks' = im_chunks + 1
                /\ im_pc' = "length"
                /\ UNCHANGED im_err
    /\ UNCHANGED <<phi, importFrame, im_version, im_length>>

\* lines 179-184: no chunk read is CorruptedMessageException; else the target
\* is published
ImportPublish ==
    /\ im_pc = "publish"
    /\ IF im_target = NullPtr
       THEN /\ im_pc' = "failed" /\ im_err' = "CorruptedMessage"
            /\ UNCHANGED phi
       ELSE /\ phi' = SetPhiMatrix(im_args.model_name, im_target)
            /\ im_pc' = "done"
            /\ UNCHANGED im_err
    /\ UNCHANGED <<heap, importFrame, im_fin, im_version, im_length, im_target, im_chunks>>

ImportModel ==
    \/ ImportCall
    \/ ImportOpen
    \/ ImportVersion
    \/ ImportLength
    \/ ImportChunk
    \/ ImportPublish

\* ------------------------------------------------------ the disk, from outside
\* the file loses its end: only its first k bytes remain
EnvTruncate ==
    /\ ~tampered
    /\ ex_pc \in {"done", "failed"} /\ im_pc = "idle"
    /\ \E f \in Paths :
        /\ fs[f].exists
        /\ \E k \in 0..(Len(fs[f].bytes) - 1) :
            fs' = [fs EXCEPT ![f].bytes = SubSeq(@, 1, k)]
    /\ tampered' = TRUE
    /\ UNCHANGED <<heap, phi, nonCodecVars, exVars, imVars>>

\* the file's first byte is overwritten
EnvSetVersion ==
    /\ ~tampered
    /\ ex_pc \in {"done", "failed"} /\ im_pc = "idle"
    /\ \E f \in Paths :
        /\ fs[f].exists /\ Len(fs[f].bytes) > 0
        /\ \E b \in {1, 32, 49} : fs' = [fs EXCEPT ![f].bytes[1] = b]
    /\ tampered' = TRUE
    /\ UNCHANGED <<heap, phi, nonCodecVars, exVars, imVars>>

\* one byte after the version byte is overwritten
EnvOverwrite ==
    /\ ~tampered
    /\ ex_pc \in {"done", "failed"} /\ im_pc = "idle"
    /\ \E f \in Paths :
        /\ fs[f].exists
        /\ \E k \in 2..Len(fs[f].bytes), b \in {0, 45, 48} :
            /\ fs[f].bytes[k] # b
            /\ fs' = [fs EXCEPT ![f].bytes[k] = b]
    /\ tampered' = TRUE
    /\ UNCHANGED <<heap, phi, nonCodecVars, exVars, imVars>>

\* ------------------------------------------------------ codec specification
\* the matrix of n tokens "b" may hold; among its weights are 0 and the bytes
\* of decimal digits
CodecMatrix(n) ==
    LET tokens == SubSeq(<<"s", "t", "u", "v", "w", "x", "y">>, 1, n) IN
    Matrix(TopicNames, tokens, [i \in 1..n |-> <<(i * 3) % 4, 48 + i>>])

CodecSizes == {0, 1, 3, 4, 7}

InitStoreCodec ==
    /\ \E n \in CodecSizes : heap = Append(InitHeap, CodecMatrix(n))
    /\ topic_model = [n \in ModelNames |->
                        IF n = "a" THEN [pwt |-> 1, nwt |-> 2] ELSE NoTopicModel]
    /\ phi = [n \in ModelNames |-> IF n = "b" THEN 4 ELSE NullPtr]
    /\ scores = [n \in ModelNames |-> 1]

InitCodecSpec ==
    /\ InitStoreCodec
    /\ InitCall
    /\ InitPool
    /\ pool_reliable = TRUE
    /\ held = NotHeld
    /\ InitAlgebra
    /\ InitCodec
    /\ InitControl

NextCodec ==
    \/ ExportModel
    \/ ImportModel
    \/ EnvTruncate
    \/ EnvSetVersion
    \/ EnvOverwrite

SpecCodec == InitCodecSpec /\ [][NextCodec]_vars


\* ------------------------------------------------------ claims on the codec
\* the import has ended, and it had opened its file
ImportRead == im_pc \in {"done", "failed"} /\ im_fin # NoStream

\* the name of the import referred to nothing when ImportModel was called
FreshName ==
    /\ phi0[im_args.model_name] = NullPtr
    /\ ~HasTopicModel(im_args.model_name)

\* ExportModel of an existing matrix to a fresh path has ended, the file was
\* left as it was, and ImportModel of that path under a fresh name has ended
RoundTrip ==
    /\ ex_pc \in {"done", "failed"}
    /\ ex_nwt # NullPtr
    /\ ex_args.file_name = im_args.file_name
    /\ ~tampered
    /\ ImportRead
    /\ FreshName

\* the import published, under its name, a matrix of its own with the entries
\* of the exported one
Reproduced ==
    /\ ex_pc = "done"
    /\ im_pc = "done"
    /\ phi[im_args.model_name] \notin {NullPtr, ex_nwt}
    /\ Entries(heap[phi[im_args.model_name]]) = Entries(heap[ex_nwt])

C8_OneChunkReached == RoundTrip /\ im_pc = "done" /\ im_chunks = 1

\* a matrix without tokens was exported and the file imported
C8_NoTokenReached == RoundTrip /\ Len(heap[ex_nwt].token) = 0

\* the file of the import starts with a byte that is not the version 0
LeadingByteNotZero ==
    /\ ImportRead
    /\ Len(fs[im_args.file_name].bytes) > 0
    /\ fs[im_args.file_name].bytes[1] # 0

\* C9: ImportModel of a file whose leading version byte is not 0 fails with
\* the corrupted-message error kind, not with disk-read or another kind, and
\* reads no chunk.
C9_VersionFailsAsCorrupted ==
    LeadingByteNotZero =>
        /\ im_pc = "failed"
        /\ im_err = "CorruptedMessage"
        /\ im_chunks = 0

\* a file with a leading byte that is not 0 was imported
C9_Reached == LeadingByteNotZero /\ im_pc = "failed" /\ im_chunks = 0

RECURSIVE TruncatedFrom(_, _)
\* from position p on, after whole records, a positive decimal length token
\* stands before fewer bytes than it announces
TruncatedFrom(bytes, p) ==
    LET to == DigitsEnd(bytes, p)
        length == DecimalValue(bytes, p, to) IN
    /\ to > p
    /\ length > 0
    /\ \/ to + length > Len(bytes)
       \/ TruncatedFrom(bytes, to + length)

\* the version byte 0, then records, the last of them cut short
TruncatedFile(bytes) ==
    /\ Len(bytes) > 0
    /\ bytes[1] = 0
    /\ TruncatedFrom(bytes, 1)

\* C10: ImportModel of a truncated file, one in which a positive decimal
\* length token is present but fewer than that many bytes follow before the end
\* of the stream, fails as corrupted, whether the truncated chunk is the first
\* chunk or a later one.
C10_TruncatedFailsAsCorrupted ==
    (ImportRead /\ TruncatedFile(fs[im_args.file_name].bytes)) =>
        /\ im_pc = "failed"
        /\ im_err = "CorruptedMessage"

\* a file cut short in a later chunk was imported
C10_LaterChunkReached ==
    /\ ImportRead
    /\ TruncatedFile(fs[im_args.file_name].bytes)
    /\ im_chunks > 0

\* a file cut short in its first chunk was imported
C10_FirstChunkReached ==
    /\ ImportRead
    /\ TruncatedFile(fs[im_args.file_name].bytes)
    /\ im_chunks = 0


\* a file cut right after the length token of a later chunk was imported, and
\* the import published the chunks before it
C10_LengthAtEndReached ==
    /\ ImportRead
    /\ TruncatedFile(fs[im_args.file_name].bytes)
    /\ IsDigit(fs[im_args.file_name].bytes[Len(fs[im_args.file_name].bytes)])
    /\ im_fin.eof /\ ~im_fin.fail
    /\ im_pc = "done"
    /\ phi[im_args.model_name] = im_target


\* the file of the import holds nothing, or the version byte 0 and nothing else
NoChunkFile == fs[im_args.file_name].bytes \in {<<>>, <<VersionByte>>}

\* C11: ImportModel of a file from which no chunk is read fails as corrupted,
\* both for a file that holds only the version byte 0 and for an empty file of
\* zero bytes, where reading the version byte itself fails.
C11_NoChunkFailsAsCorrupted ==
    (ImportRead /\ NoChunkFile) =>
        /\ im_pc = "failed"
        /\ im_err = "CorruptedMessage"

\* the import of a file that holds only the version byte failed as corrupted
C11_VersionOnlyReached ==
    /\ ImportRead
    /\ fs[im_args.file_name].bytes = <<VersionByte>>
    /\ im_pc = "failed" /\ im_err = "CorruptedMessage"

\* the import of a file of zero bytes has ended; no version byte was stored
C11_EmptyReached ==
    /\ ImportRead
    /\ fs[im_args.file_name].bytes = <<>>
    /\ im_fin.fail

\* C12: an ImportModel call that fails, for whatever reason, publishes nothing:
\* every name of the Matrix Store, the requested one included, refers to the
\* matrix it referred to before the call, with the content it had, even when
\* earlier chunks of the file had been accumulated.
C12_FailedImportPublishesNothing ==
    im_pc = "failed" =>
        /\ phi = phi0
        /\ \A i \in 1..Len(heap0) : heap[i] = heap0[i]

\* an import into an existing name failed after it had accumulated a chunk
C12_Witness ==
    /\ im_pc = "failed"
    /\ im_chunks > 0
    /\ phi0[im_args.model_name] # NullPtr
    /\ im_target \notin {NullPtr, phi[im_args.model_name]}

\* imports have failed at a length token that is not positive, and at the open
C12_BadLengthReached ==
    im_pc = "failed" /\ im_err = "CorruptedMessage" /\ ~im_fin.eof /\ im_length <= 0

C12_UnreadableReached == im_pc = "failed" /\ im_fin = NoStream


\* ------------------------------------------------------------------ WaitIdle
\* the values of args.timeout_milliseconds(): the sentinel, a negative value
\* that is not the sentinel, zero, positive budgets
Timeouts == (-2)..MaxTimeout

\* what WaitIdle leaves alone
waitFrame ==
    <<storeVars, callVars, poolVars, histVars, held, algVars, codecVars, configVars>>

\* lines 463-467: the locals timeout and new_args, and time_start
WaitIdleCall ==
    /\ wi_pc \in {"idle", "done"}
    /\ \E t \in Timeouts :
        /\ wi_args' = [timeout_milliseconds |-> t]
        /\ wi_timeout' = t
        /\ wi_new_args' = [timeout_milliseconds |-> t]
    /\ wi_retval' = FALSE
    /\ wi_elapsed' = 0
    /\ wi_invoked' = <<>>
    /\ wi_result' = FALSE
    /\ wi_pc' = "first"
    /\ UNCHANGED waitFrame

\* one invocation of a sub-wait and what it answered
Invocation(who, wait_args, idle) ==
    [who |-> who, timeout_milliseconds |-> wait_args.timeout_milliseconds, idle |-> idle]

\* a WaitIdle that goes on to the second sub-wait whatever the first answered
NeverReturnsEarly(retval) == FALSE

\* line 470: if (!retval) return false
ReturnsEarly(retval) == ~retval

\* lines 469-470: data_loader()->WaitIdle(args), which answers idle or not
WaitIdleFirst ==
    /\ wi_pc = "first"
    /\ \E idle \in BOOLEAN :
        /\ wi_retval' = idle
        /\ wi_invoked' = Append(wi_invoked, Invocation("data_loader", wi_args, idle))
        /\ IF ReturnsEarly(idle)
           THEN wi_pc' = "done" /\ wi_result' = FALSE
           ELSE wi_pc' = "budget" /\ UNCHANGED wi_result
    /\ UNCHANGED <<waitFrame, wi_args, wi_timeout, wi_new_args, wi_elapsed>>

\* a budget that is handed on whole
FullBudget(timeout, elapsed) == timeout

\* lines 473-474: timeout -= elapsed, unless timeout is -1
RemainingBudget(timeout, elapsed) ==
    IF timeout # Unbounded THEN timeout - elapsed ELSE timeout

\* lines 472-476: time_end is read; the elapsed milliseconds are taken from the
\* budget and the rest is set in new_args, unless the budget is -1
WaitIdleBudget ==
    /\ wi_pc = "budget"
    /\ \E e \in 0..MaxElapsed :
        /\ wi_elapsed' = e
        /\ wi_timeout' = RemainingBudget(wi_timeout, e)
        /\ wi_new_args' =
             IF wi_timeout # Unbounded
             THEN [wi_new_args EXCEPT !.timeout_milliseconds = RemainingBudget(wi_timeout, e)]
             ELSE wi_new_args
    /\ wi_pc' = "second"
    /\ UNCHANGED <<waitFrame, wi_args, wi_retval, wi_invoked, wi_result>>

\* line 478: return merger()->WaitIdle(new_args)
WaitIdleSecond ==
    /\ wi_pc = "second"
    /\ \E idle \in BOOLEAN :
        /\ wi_invoked' = Append(wi_invoked, Invocation("merger", wi_new_args, idle))
        /\ wi_result' = idle
    /\ wi_pc' = "done"
    /\ UNCHANGED <<waitFrame, wi_args, wi_timeout, wi_new_args, wi_retval, wi_elapsed>>

WaitIdle ==
    \/ WaitIdleCall
    \/ WaitIdleFirst
    \/ WaitIdleBudget
    \/ WaitIdleSecond

InitWaitSpec ==
    /\ InitStore
    /\ InitCall
    /\ InitPool
    /\ pool_reliable = TRUE
    /\ held = NotHeld
    /\ InitAlgebra
    /\ InitCodec
    /\ InitControl

NextWait == WaitIdle

SpecWait == InitWaitSpec /\ [][NextWait]_vars

\* ------------------------------------------------------ claims on WaitIdle
\* C13: WaitIdle invokes the pending-batch wait first; if that answers not
\* idle, WaitIdle returns false and the pending-merge wait is never invoked;
\* otherwise the pending-merge wait is invoked exactly once, after it, and
\* WaitIdle returns its answer: it returns true only if both answered true.
C13_SequentialSubWaits ==
    /\ wi_pc \in {"idle", "first"} => wi_invoked = <<>>
    /\ wi_pc \in {"budget", "second"} =>
        /\ Len(wi_invoked) = 1
        /\ wi_invoked[1].who = "data_loader"
        /\ wi_invoked[1].idle
    /\ wi_pc = "done" =>
        /\ Len(wi_invoked) \in {1, 2}
        /\ wi_invoked[1].who = "data_loader"
        /\ wi_invoked[1].timeout_milliseconds = wi_args.timeout_milliseconds
        /\ Len(wi_invoked) = 1 <=> ~wi_invoked[1].idle
        /\ Len(wi_invoked) = 1 => ~wi_result
        /\ Len(wi_invoked) = 2 =>
            /\ wi_invoked[2].who = "merger"
            /\ wi_result = wi_invoked[2].idle
        /\ wi_result => \A k \in 1..Len(wi_invoked) : wi_invoked[k].idle

\* a call returned true after both sub-waits had answered idle
C13_Witness ==
    /\ wi_pc = "done"
    /\ Len(wi_invoked) = 2
    /\ wi_result

\* a call returned false after the first sub-wait alone
C13_EarlyReturnReached == wi_pc = "done" /\ Len(wi_invoked) = 1 /\ ~wi_result

\* the second sub-wait was invoked
SecondInvoked == wi_pc = "done" /\ Len(wi_invoked) = 2

\* C14: the timeout budget is shared: for a caller timeout T other than -1 and
\* a first sub-wait that took e milliseconds the second sub-wait is invoked
\* with the budget T - e, never more; for T = -1 it is invoked with -1
\* whatever e was.
C14_BudgetShared ==
    SecondInvoked =>
        wi_invoked[2].timeout_milliseconds =
            IF wi_args.timeout_milliseconds = Unbounded
            THEN Unbounded
            ELSE wi_args.timeout_milliseconds - wi_elapsed

\* a call with a positive budget, part of it spent in the first sub-wait
C14_Witness ==
    /\ SecondInvoked
    /\ wi_args.timeout_milliseconds = MaxTimeout
    /\ wi_elapsed > 0 /\ wi_elapsed < MaxTimeout
    /\ wi_invoked[2].timeout_milliseconds = MaxTimeout - wi_elapsed

\* an unbounded call whose first sub-wait took time
C14_UnboundedReached ==
    /\ SecondInvoked
    /\ wi_args.timeout_milliseconds = Unbounded
    /\ wi_elapsed > 0
    /\ wi_invoked[2].timeout_milliseconds = Unbounded

\* C20: a WaitIdle call with a bounded timeout (any value other than -1) never
\* invokes the second sub-wait with the unbounded sentinel -1, whatever time
\* the first sub-wait took.
C20_BoundedStaysBounded ==
    (SecondInvoked /\ wi_args.timeout_milliseconds # Unbounded) =>
        wi_invoked[2].timeout_milliseconds # Unbounded

\* a call with a budget of 0 or more handed -1 to the second sub-wait
C20_SentinelReached ==
    /\ SecondInvoked
    /\ wi_args.timeout_milliseconds >= 0
    /\ wi_invoked[2].timeout_milliseconds = Unbounded


\* ------------------------------------------------------------- configuration
\* what the configuration calls leave alone
configFrame ==
    <<storeVars, callVars, poolVars, histVars, held, algVars, codecVars, waitVars>>

\* the configuration state as a call finds it
ConfigState ==
    [config_ |-> config_, instance_config |-> instance_config,
     model_configs |-> model_configs]

\* Reconfigure and CreateOrReconfigureModel come from one calling thread
NoConfigCall == rc_pc \in {"idle", "done", "failed"} /\ cm_pc \in {"idle", "done", "failed"}

ReconfigureCall ==
    /\ NoConfigCall
    /\ \E user_config \in MasterComponentConfig : rc_args' = user_config
    /\ rc_pc' = "validate"
    /\ rc_err' = "none"
    /\ cfg0' = ConfigState
    /\ UNCHANGED <<configFrame, is_configured_, config_, instance_config, model_configs,
                   cm_pc, cm_args, cm_err, config_held>>

\* a validation that accepts every storage location
DiskPathNeverDiffers(current_config, config) == FALSE

\* line 500: current_config->disk_path() != config.disk_path()
DiskPathDiffers(current_config, config) == current_config.disk_path # config.disk_path

\* line 196 and lines 497-505: ValidateConfig
ReconfigureValidate ==
    /\ rc_pc = "validate"
    /\ IF is_configured_ /\ DiskPathDiffers(config_, rc_args)
       THEN rc_pc' = "failed" /\ rc_err' = "InvalidOperation"
       ELSE rc_pc' = "publish" /\ UNCHANGED rc_err
    /\ UNCHANGED <<configFrame, is_configured_, config_, instance_config, model_configs,
                   rc_args, cm_pc, cm_args, cm_err, config_held, cfg0>>

\* lines 198-204: the copy with its queue size set replaces the snapshot
ReconfigurePublish ==
    /\ rc_pc = "publish"
    /\ config_' = WithQueueSize(rc_args)
    /\ rc_pc' = "instance"
    /\ UNCHANGED <<configFrame, is_configured_, instance_config, model_configs, rc_args,
                   rc_err, cm_pc, cm_args, cm_err, config_held, cfg0>>

\* lines 206-212: the Instance is created on the first configuration and
\* reconfigured on a later one
ReconfigureInstance ==
    /\ rc_pc = "instance"
    /\ instance_config' = WithQueueSize(rc_args)
    /\ is_configured_' = TRUE
    /\ rc_pc' = "done"
    /\ UNCHANGED <<configFrame, config_, model_configs, rc_args, rc_err, cm_pc, cm_args,
                   cm_err, config_held, cfg0>>

Reconfigure ==
    \/ ReconfigureCall
    \/ ReconfigureValidate
    \/ ReconfigurePublish
    \/ ReconfigureInstance

\* config_.get() by another thread
ConfigReader ==
    /\ config_held' = config_
    /\ config_held # config_
    /\ UNCHANGED <<configFrame, is_configured_, config_, instance_config, model_configs,
                   rc_pc, rc_args, rc_err, cm_pc, cm_args, cm_err, cfg0>>

\* ModelConfig: the fields CreateOrReconfigureModel reads
ModelConfig ==
    [class_weight_size : {0, 1}, class_id_size : {0, 1}, use_sparse_bow : BOOLEAN,
     present : {TRUE}]

\* the names CreateOrReconfigureModel is called with
ConfiguredNames == {"a", "b"}

CreateModelCall ==
    /\ NoConfigCall
    /\ \E n \in ConfiguredNames, config \in ModelConfig :
        cm_args' = [name |-> n, config |-> config]
    /\ cm_pc' = "check"
    /\ cm_err' = "none"
    /\ cfg0' = ConfigState
    /\ UNCHANGED <<configFrame, is_configured_, config_, instance_config, model_configs,
                   rc_pc, rc_args, rc_err, config_held>>

\* a test that looks at the class weights alone
WeightsWithoutSparseBow(config) ==
    config.class_weight_size # 0 /\ ~config.use_sparse_bow

\* line 53: class weights or class ids, and use_sparse_bow = false
ClassesWithoutSparseBow(config) ==
    (config.class_weight_size # 0 \/ config.class_id_size # 0) /\ ~config.use_sparse_bow

\* lines 53-58
CreateModelCheck ==
    /\ cm_pc = "check"
    /\ IF ClassesWithoutSparseBow(cm_args.config)
       THEN cm_pc' = "failed" /\ cm_err' = "InvalidOperation"
       ELSE cm_pc' = "instance" /\ UNCHANGED cm_err
    /\ UNCHANGED <<configFrame, is_configured_, config_, instance_config, model_configs,
                   rc_pc, rc_args, rc_err, cm_args, config_held, cfg0>>

\* line 61: instance_->CreateOrReconfigureModel(config)
CreateModelInstance ==
    /\ cm_pc = "instance"
    /\ model_configs' = [model_configs EXCEPT ![cm_args.name] = cm_args.config]
    /\ cm_pc' = "done"
    /\ UNCHANGED <<configFrame, is_configured_, config_, instance_config, rc_pc, rc_args,
                   rc_err, cm_args, cm_err, config_held, cfg0>>

CreateOrReconfigureModel ==
    \/ CreateModelCall
    \/ CreateModelCheck
    \/ CreateModelInstance

\* the constructor was given any configuration
InitConfigSpec ==
    /\ InitStore
    /\ InitCall
    /\ InitPool
    /\ pool_reliable = TRUE
    /\ held = NotHeld
    /\ InitAlgebra
    /\ InitCodec
    /\ InitWait
    /\ \E user_config \in MasterComponentConfig : Constructed(user_config)

NextConfig ==
    \/ Reconfigure
    \/ ConfigReader

SpecConfig == InitConfigSpec /\ [][NextConfig]_vars

InitModelsSpec ==
    /\ InitStore
    /\ InitCall
    /\ InitPool
    /\ pool_reliable = TRUE
    /\ held = NotHeld
    /\ InitAlgebra
    /\ InitCodec
    /\ InitControl

NextModels == CreateOrReconfigureModel

SpecModels == InitModelsSpec /\ [][NextModels]_vars

\* ------------------------------------------------ claims on the configuration
\* Reconfigure has passed its validation, or failed at it
Validated == rc_pc \in {"publish", "instance", "done", "failed"}

\* a configuration with its worker-queue capacity set
Complete(config) ==
    /\ DOMAIN config = {"disk_path", "processors_count", "processor_queue_max_size"}
    /\ config.disk_path \in DiskPaths
    /\ config.processors_count \in Nat
    /\ config.processor_queue_max_size \in Nat \ {Unset}

\* C15: after the first configuration a Reconfigure call whose disk_path
\* differs from the current snapshot's fails with invalid-operation and leaves
\* the configuration snapshot and the execution context untouched; so the
\* disk_path of the published snapshot never changes after construction, and
\* every snapshot a reader obtains is a complete configuration with the
\* worker-queue capacity set: the caller's value, or the worker count when unset.
C15_DiskPathImmutable ==
    /\ []((Validated /\ rc_args.disk_path # cfg0.config_.disk_path) =>
            /\ rc_pc = "failed"
            /\ rc_err = "InvalidOperation"
            /\ config_ = cfg0.config_
            /\ instance_config = cfg0.instance_config
            /\ model_configs = cfg0.model_configs)
    /\ [][config_'.disk_path = config_.disk_path]_vars
    /\ [](Complete(config_held) /\ Complete(config_))
    /\ [](rc_pc \in {"instance", "done"} =>
            /\ \A field \in {"disk_path", "processors_count"} :
                config_[field] = rc_args[field]
            /\ config_.processor_queue_max_size =
                 IF rc_args.processor_queue_max_size = Unset
                 THEN rc_args.processors_count
                 ELSE rc_args.processor_queue_max_size)

\* a Reconfigure with another disk_path has failed, and a reader holds the
\* snapshot of an earlier Reconfigure whose queue size was defaulted
C15_Witness ==
    /\ rc_pc = "failed"
    /\ rc_args.disk_path # config_.disk_path
    /\ config_held = config_
    /\ config_.processor_queue_max_size = config_.processors_count

\* a Reconfigure that kept the disk_path replaced the snapshot
C15_ReplacedReached ==
    /\ rc_pc = "done"
    /\ rc_args.processor_queue_max_size = Unset
    /\ config_ # cfg0.config_
    /\ config_.processor_queue_max_size = rc_args.processors_count

\* CreateOrReconfigureModel has passed its test, or failed at it
Checked == cm_pc \in {"instance", "done", "failed"}

\* C16 as stated: CreateOrReconfigureModel with a configuration that sets
\* per-class weights while dense mode is selected fails with
\* invalid-operation before the execution context is called, the models
\* unchanged; every configuration without that combination is passed on to
\* the execution context.
C16_RejectsWeightsInDenseMode ==
    /\ (Checked /\ WeightsWithoutSparseBow(cm_args.config)) =>
        /\ cm_pc = "failed"
        /\ cm_err = "InvalidOperation"
        /\ model_configs = cfg0.model_configs
    /\ (Checked /\ ~WeightsWithoutSparseBow(cm_args.config)) =>
        /\ cm_pc # "failed"
        /\ cm_pc = "done" => model_configs[cm_args.name] = cm_args.config

\* C16, amended: CreateOrReconfigureModel with a configuration that sets
\* per-class weights or class ids while dense mode is selected fails with
\* invalid-operation before the execution context is called, the models
\* unchanged; every other configuration is passed on to the execution context.
C16_RejectsClassesInDenseMode ==
    /\ (Checked /\ (cm_args.config.class_weight_size # 0 \/ cm_args.config.class_id_size # 0)
          /\ ~cm_args.config.use_sparse_bow) =>
        /\ cm_pc = "failed"
        /\ cm_err = "InvalidOperation"
        /\ model_configs = cfg0.model_configs
    /\ (Checked /\ ~((cm_args.config.class_weight_size # 0 \/ cm_args.config.class_id_size # 0)
                      /\ ~cm_args.config.use_sparse_bow)) =>
        /\ cm_pc # "failed"
        /\ cm_pc = "done" =>
            /\ model_configs[cm_args.name] = cm_args.config
            /\ \A n \in ModelNames \ {cm_args.name} :
                model_configs[n] = cfg0.model_configs[n]

\* a dense configuration with class ids and no class weights was rejected, the
\* model of that name kept as configured before
C16_Witness ==
    /\ cm_pc = "failed"
    /\ cm_args.config.class_id_size # 0
    /\ cm_args.config.class_weight_size = 0
    /\ model_configs[cm_args.name].present

\* a sparse configuration with class weights was passed on
C16_PassedOnReached ==
    /\ cm_pc = "done"
    /\ cm_args.config.class_weight_size # 0
    /\ model_configs[cm_args.name] = cm_args.config


\* ------------------------------------------------- concurrent dispatch rounds
\* two threads that call RequestProcessBatches at the same time
Rounds == {"c1", "c2"}

\* the arguments of the concurrent calls: the same source model, no target, one
\* batch, scores reset or not
RoundArgs ==
    {a \in ProcessBatchesArgs :
        /\ a.pwt_source_name = "a"
        /\ a.nwt_target_name = NoName
        /\ a.batches = 1
        /\ a.config_ok}

\* the call is made by one of the two threads
CallRound(c) ==
    /\ pc[c] = "idle"
    /\ \E a \in RoundArgs : args' = [args EXCEPT ![c] = a]
    /\ pc' = [pc EXCEPT ![c] = "resolve"]
    /\ UNCHANGED <<storeVars, p_wt, batch_index, in_progress, next_uuid, result, err,
                   poolVars, histVars, held, algVars, codecVars, controlVars>>

RoundStep(c) ==
    \/ CallRound(c)
    \/ ResolveSource(c)
    \/ PublishTarget(c)
    \/ ValidateModelConfig(c)
    \/ ResetScores(c)
    \/ EnqueueBatch(c)
    \/ PollTracker(c)
    \/ CollectScores(c)

\* a worker of a pool that keeps its guarantee
RoundWorkerStep(w) ==
    \/ WorkerPop(w)
    \/ WorkerProcess(w)
    \/ WorkerAck(w)

\* no round has run before: the accumulator of every model holds nothing
InitRounds ==
    /\ heap = InitHeap
    /\ topic_model = [n \in ModelNames |->
                        IF n = "a" THEN [pwt |-> 1, nwt |-> 2] ELSE NoTopicModel]
    /\ phi = [n \in ModelNames |-> IF n = "b" THEN 3 ELSE NullPtr]
    /\ scores = [n \in ModelNames |-> 0]
    /\ pc = [c \in Rounds |-> "idle"]
    /\ args = [c \in Rounds |-> NoArgs]
    /\ p_wt = [c \in Rounds |-> NullPtr]
    /\ batch_index = [c \in Rounds |-> 0]
    /\ in_progress = [c \in Rounds |-> {}]
    /\ next_uuid = 0
    /\ result = [c \in Rounds |-> 0]
    /\ err = [c \in Rounds |-> "none"]
    /\ registered = [c \in Rounds |-> <<>>]
    /\ pushed = [c \in Rounds |-> <<>>]
    /\ acked = {}
    /\ lost = {}
    /\ phi0 = phi /\ heap0 = heap /\ scores0 = scores
    /\ InitPool
    /\ pool_reliable = TRUE
    /\ held = NotHeld
    /\ InitAlgebra
    /\ InitCodec
    /\ InitControl

NextRounds ==
    \/ \E c \in Rounds : RoundStep(c)
    \/ \E w \in Workers : RoundWorkerStep(w)

SpecRounds == InitRounds /\ [][NextRounds]_vars

\* C17: the score state of one dispatch round is not shared with a concurrent
\* round: when two RequestProcessBatches calls run concurrently against the
\* same model name, with or without a score reset, the merged scores each call
\* returns hold exactly the contributions of that call's own work items (one
\* per batch here), whatever the other call resets and the other call's
\* workers report.
C17_ScoresOfOwnRound ==
    \A c \in Rounds : pc[c] = "done" => result[c] = Len(registered[c])

\* a call returned while the other call, against the same model, was under way
C17_ConcurrentReached ==
    \E c \in Rounds, d \in Rounds :
        /\ c # d
        /\ pc[c] = "done"
        /\ pc[d] \in {"loop", "wait"}
        /\ args[c].pwt_source_name = args[d].pwt_source_name

\* a call returned a score that holds the contribution of the other call's item
C17_ForeignScoreReached ==
    \E c \in Rounds : pc[c] = "done" /\ result[c] > Len(registered[c])

\* a call returned a score from which its own contribution was wiped
C17_WipedScoreReached ==
    \E c \in Rounds :
        pc[c] = "done" /\ args[c].reset_scores /\ result[c] < Len(registered[c])


\* ------------------------------------------- claims on the resolved counts
\* RegularizeModel has resolved its sources
RegularizeResolved ==
    op = "regularize" /\ op_pc \in {"alloc", "fill", "publish", "done", "crashed"}

\* C18: RegularizeModel resolves its counts source once, preferring the
\* versioned model when a versioned model and a raw matrix exist under the
\* name, and the freshly allocated target has the topic names and the shape of
\* that same resolved counts matrix, the one passed to the regularizers; the
\* call completes and publishes a target when the counts source exists only
\* as a versioned model.
C18_TargetFromResolvedCounts ==
    RegularizeResolved =>
        /\ op_nwt.n_wt = MergeSourceCounts(op_args.nwt_source_name)
        /\ op_pc # "crashed"
        /\ op_pc \in {"fill", "publish", "done"} =>
            /\ heap[op_target].topic_name = heap[op_nwt.n_wt].topic_name
            /\ heap[op_target].token = heap[op_nwt.n_wt].token
        /\ op_pc = "done" => phi[op_args.rwt_target_name] = op_target

\* RegularizeModel of a counts source that exists only as a versioned model
\* ended at the dereference of the raw-matrix pointer
C18_NullRawMatrixReached ==
    /\ op = "regularize" /\ op_pc = "crashed"
    /\ HasTopicModel(op_args.nwt_source_name)
    /\ op_nwt.phi_matrix = NullPtr

\* RegularizeModel published a target with the tokens of the raw matrix, not
\* of the versioned counts its regularizers were given
C18_OtherShapeReached ==
    /\ op = "regularize" /\ op_pc = "done"
    /\ op_nwt.n_wt # op_nwt.phi_matrix
    /\ heap[op_target].token = heap[op_nwt.phi_matrix].token
    /\ heap[op_target].token # heap[op_nwt.n_wt].token

\* NormalizeModel has resolved its counts source
NormalizeResolved ==
    op = "normalize" /\ op_pc \in {"alloc", "fill", "publish", "done"}

\* ExportModel has resolved the matrix it writes
ExportResolved == ex_pc \in {"header", "tokens", "done"}

\* C19: when the counts source of an operation resolves to a versioned model
\* the operation reads that model's counts matrix (Nwt): NormalizeModel and
\* ExportModel read the role of the versioned model that MergeModel and
\* RegularizeModel read, so the result is the one a raw matrix with these
\* counts gives.
C19_VersionedCountsAreNwt ==
    /\ (NormalizeResolved /\ HasTopicModel(op_args.nwt_source_name)) =>
        /\ op_nwt.n_wt = MergeSourceCounts(op_args.nwt_source_name)
        /\ op_pc = "done" =>
            heap[op_target] =
                FindPwt(heap[MergeSourceCounts(op_args.nwt_source_name)],
                        IF op_pwt = NullPtr THEN NewMatrix(TopicNames) ELSE heap[op_pwt],
                        Reshape(heap[MergeSourceCounts(op_args.nwt_source_name)]))
    /\ (ExportResolved /\ HasTopicModel(ex_args.model_name)) =>
        ex_nwt = MergeSourceCounts(ex_args.model_name)
    /\ (RegularizeResolved /\ HasTopicModel(op_args.nwt_source_name)) =>
        op_nwt.n_wt = MergeSourceCounts(op_args.nwt_source_name)

\* NormalizeModel of a versioned model published the normalization of its
\* probabilities (Pwt), which is not that of its counts
C19_NormalizedPwtReached ==
    /\ NormalizeResolved /\ op_pc = "done"
    /\ HasTopicModel(op_args.nwt_source_name)
    /\ op_nwt.n_wt = topic_model[op_args.nwt_source_name].pwt
    /\ heap[op_target] #
         FindPwt(heap[MergeSourceCounts(op_args.nwt_source_name)],
                 IF op_pwt = NullPtr THEN NewMatrix(TopicNames) ELSE heap[op_pwt],
                 Reshape(heap[MergeSourceCounts(op_args.nwt_source_name)]))

\* ExportModel of a versioned model wrote its probabilities (Pwt)
C19_ExportedPwtReached ==
    /\ ex_pc = "done"
    /\ HasTopicModel(ex_args.model_name)
    /\ ex_nwt = topic_model[ex_args.model_name].pwt
    /\ ex_nwt # MergeSourceCounts(ex_args.model_name)

\* ---------------------------------------------------------------------------
\* claims on the calls that fail after their first effect
\* ---------------------------------------------------------------------------

\* the export failed at lines 98-99 or 104-106: the model is missing or its
\* matrix holds no token
ExportUnresolved == ex_pc = "failed" /\ ex_err = "InvalidOperation"

\* C21: an ExportModel call that fails because the named model does not exist or
\* has no tokens leaves no file at the destination path, so that a later export
\* to the same path is not rejected with "file already exists".
C21_FailedExportLeavesNoFile ==
    ExportUnresolved => ~fs[ex_args.file_name].exists

\* an export of a missing model failed and its destination exists, empty
C21_MissingModelReached ==
    /\ ExportUnresolved
    /\ ~HasTopicModel(ex_args.model_name) /\ ~HasPhiMatrix(ex_args.model_name)
    /\ fs[ex_args.file_name] = [exists |-> TRUE, bytes |-> <<>>]

\* an export of a model without tokens failed and its destination exists, empty
C21_NoTokenReached ==
    /\ ExportUnresolved
    /\ ex_nwt # NullPtr
    /\ Len(heap[ex_nwt].token) = 0
    /\ fs[ex_args.file_name] = [exists |-> TRUE, bytes |-> <<>>]

\* an export of a model that has tokens was rejected at line 90 because of a
\* destination that holds zero bytes
C21_LaterExportRejected ==
    /\ ex_pc = "failed" /\ ex_err = "DiskWrite"
    /\ HasTopicModel(ex_args.model_name) \/ HasPhiMatrix(ex_args.model_name)
    /\ Len(heap[ExportSource(ex_args.model_name)].token) > 0
    /\ fs[ex_args.file_name] = [exists |-> TRUE, bytes |-> <<>>]

\* the call failed at line 273: its source resolved, its target (if any) differs
\* from the source, and the derived model configuration did not validate
ValidationFailed(c) ==
    /\ pc[c] = "failed"
    /\ err[c] = "InvalidOperation"
    /\ ~SourceMissing(c)
    /\ args[c].nwt_target_name # args[c].pwt_source_name
    /\ ~args[c].config_ok

\* C22: a RequestProcessBatches call that names a target and fails at the
\* validation of the derived model configuration leaves the Matrix Store
\* unchanged: every name holds the matrix object it held when the call was made,
\* with the same contents, so the target name holds no zero-initialized matrix.
C22_FailedValidationLeavesStore ==
    \A c \in Callers :
        (ValidationFailed(c) /\ args[c].nwt_target_name # NoName) =>
            /\ phi = phi0
            /\ \A n \in ModelNames :
                phi[n] # NullPtr => heap[phi[n]] = heap0[phi0[n]]

\* a call failed at the validation after its target name, which held a matrix
\* with non-zero weights, was given a new matrix of the source's shape with all
\* weights zero
C22_TargetReplacedReached ==
    \E c \in Callers :
        /\ ValidationFailed(c)
        /\ args[c].nwt_target_name # NoName
        /\ phi0[args[c].nwt_target_name] # NullPtr
        /\ \E e \in Entries(heap0[phi0[args[c].nwt_target_name]]) : e[3] # 0
        /\ phi[args[c].nwt_target_name] \notin {NullPtr, phi0[args[c].nwt_target_name]}
        /\ heap[phi[args[c].nwt_target_name]] = Reshape(heap[p_wt[c]])

\* a call failed at the validation and published a matrix under a target name
\* that held nothing before
C22_TargetCreatedReached ==
    \E c \in Callers :
        /\ ValidationFailed(c)
        /\ args[c].nwt_target_name # NoName
        /\ phi0[args[c].nwt_target_name] = NullPtr
        /\ phi[args[c].nwt_target_name] # NullPtr

\* a call without a target failed at the validation; the store is what it was
C22_NoTargetReached ==
    \E c \in Callers :
        /\ ValidationFailed(c)
        /\ args[c].nwt_target_name = NoName
        /\ phi = phi0 /\ heap = heap0

====
